---- MODULE Spec2Model ----
(***************************************************************************)
(* Model of the Vulkan replay back end of RenderDoc:                       *)
(*   - VulkanDebugManager::GPUBuffer (ring allocator)        vk_debug.cpp  *)
(*   - VulkanDebugManager::CacheMeshDisplayPipelines         vk_debug.cpp  *)
(*   - VulkanDebugManager::RenderOverlay                     vk_debug.cpp  *)
(*   - PatchFixedColShader and AddOutputDumping (SPIR-V)     vk_debug.cpp  *)
(*   - SerialiseNext / DeserialiseNext / Deserialise     vk_serialise.cpp  *)
(*   - OptionalResources / DoSerialiseViaResourceId      vk_serialise.cpp  *)
(*   - DoSerialise of the versioned structures           vk_serialise.cpp  *)
(*   - VulkanDebugManager::MakeGraphicsPipelineInfo          vk_debug.cpp  *)
(* Each subsystem has its own specification (SpecRing, SpecMesh,           *)
(* SpecOverlay, SpecFixedCol, SpecDump, SpecSer, SpecRes, SpecVer,         *)
(* SpecPipe, SpecNext) over                                                *)
(* the shared variables; the variables of the other subsystems stay at     *)
(* their constructed values.                                               *)
(***************************************************************************)
EXTENDS Integers, Sequences, FiniteSets, TLC

VARIABLES
  \* ---- GPUBuffer (ring allocator) ----
  ubo,                    \* [align, sz, totalsize, curoffset] of one GPUBuffer
  lastMap,                \* the last Map call: [n, offset, size, bound]
  \* ---- mesh display pipeline cache ----
  m_CachedMeshPipelines,  \* map<uint64_t, MeshDisplayPipelines>
  createCalls,            \* number of CreateGraphicsPipelines calls made so far
  lastLookup,             \* the last CacheMeshDisplayPipelines call and its result
  served,                 \* history: signature -> key of the entry it was served from
  built,                  \* history: signature -> pipes built for it by a lookup
  shiftUB,                \* what this build does for a 32-bit shift by 39 bits
  \* ---- chunk serialiser ----
  pIn,                    \* the VkDeviceCreateInfo handed to the serialiser
  stream,                 \* the words of the chunk being written or read
  wlog,                   \* what the writer logged with RDCERR
  rd,                     \* the result of reading: reader state and decoded value
  rel,                    \* the result of releasing the decoded value
  serPhase,               \* "init", "written", "foreign", "read", "released"
  \* ---- overlay engine ----
  state,                  \* m_pDriver->m_PartialReplayData.state
  objs,                   \* the objects the manager created: handle -> kind, destroy count
  strayDestroys,          \* destroy calls on handles that were never created
  ovl,                    \* m_OverlayImage, ...View, ...NoDepthRP, ...NoDepthFB, ...ImageMem, ...MemSize, ...Dim
  ov,                     \* the RenderOverlay call in progress: its position and locals
  \* ---- handles serialised through resource ids ----
  Counter,                \* OptionalResources<Reading>::Counter
  scopes,                 \* the OptionalResources objects alive, innermost last
  resEl,                  \* el: the handle variable DoSerialiseViaResourceId serialises
  lastRes,                \* the last DoSerialiseViaResourceId call and what it did
  \* ---- SPIR-V patching ----
  fixedcol,               \* GetEmbeddedResource(fixedcolfs_spv), as 32-bit words
  fcCall,                 \* the last PatchFixedColShader call and what it did
  dump,                   \* the last AddOutputDumping call: refl, modSpirv before and after
  \* ---- versioned structures ----
  verReads,               \* history: <<structure, version>> -> the members serialised
  \* ---- pipeline descriptions ----
  views,                  \* static VkViewport views[32], as 32-bit words
  scissorRects,           \* static VkRect2D scissors[32], as 32-bit words
  vp,                     \* static VkPipelineViewportStateCreateInfo vp: the two counts
  pipeCall,               \* the last MakeGraphicsPipelineInfo call: [n, pipeInfo]
  \* ---- releasing a chain ----
  pNextIn,                \* the chain handed to DeserialiseNext
  nextRel                 \* the DeserialiseNext call: [n, rel]

ringVars == <<ubo, lastMap>>
meshVars == <<m_CachedMeshPipelines, createCalls, lastLookup, served, built, shiftUB>>
serVars == <<pIn, stream, wlog, rd, rel, serPhase>>
ovVars == <<state, objs, strayDestroys, ovl, ov>>
resVars == <<Counter, scopes, resEl, lastRes>>
fcVars == <<fixedcol, fcCall>>
dumpVars == <<dump>>
verVars == <<verReads>>
pipeVars == <<views, scissorRects, vp, pipeCall>>
nextVars == <<pNextIn, nextRel>>

\* what the operations of one subsystem leave alone
exceptRing == <<meshVars, serVars, ovVars, resVars, fcVars, dumpVars, verVars, pipeVars, nextVars>>
exceptMesh == <<ringVars, serVars, ovVars, resVars, fcVars, dumpVars, verVars, pipeVars, nextVars>>
exceptSer == <<ringVars, meshVars, ovVars, resVars, fcVars, dumpVars, verVars, pipeVars, nextVars>>
exceptOverlay == <<ringVars, meshVars, serVars, resVars, fcVars, dumpVars, verVars, pipeVars, nextVars>>
exceptRes == <<ringVars, meshVars, serVars, ovVars, fcVars, dumpVars, verVars, pipeVars, nextVars>>
exceptFixedCol == <<ringVars, meshVars, serVars, ovVars, resVars, dumpVars, verVars, pipeVars, nextVars>>
exceptDump == <<ringVars, meshVars, serVars, ovVars, resVars, fcVars, verVars, pipeVars, nextVars>>
exceptVer == <<ringVars, meshVars, serVars, ovVars, resVars, fcVars, dumpVars, pipeVars, nextVars>>
exceptPipe == <<ringVars, meshVars, serVars, ovVars, resVars, fcVars, dumpVars, verVars, nextVars>>
exceptNext == <<ringVars, meshVars, serVars, ovVars, resVars, fcVars, dumpVars, verVars, pipeVars>>

NullHandle == 0

(***************************************************************************)
(* GPUBuffer: Create and Map                                               *)
(***************************************************************************)
MaxBufSize == 5
MaxRingSize == 3
Aligns == {1, 2, 4}      \* minUniformBufferOffsetAlignment is a power of two

\* AlignUp(x, a): x rounded up to the next multiple of a (a a power of two)
AlignUp(x, a) == ((x + (a - 1)) \div a) * a

\* GPUBuffer::Create: the fields it sets
GPUBufferCreate(size, ringSize, al) ==
  [ align     |-> al,
    sz        |-> size,
    totalsize |-> IF ringSize = 1 THEN size ELSE AlignUp(size, al) * ringSize,
    curoffset |-> 0 ]

\* the wrap of the ring in Map, dropped: a plausible slip
MapOffsetNoWrap(b, bindoffset, size) ==
  IF bindoffset THEN b.curoffset ELSE 0

\* the offset Map hands out: the cursor (or 0 without bindoffset), wrapped to
\* zero when offset + size would pass the end of the buffer
MapOffset(b, bindoffset, size) ==
  LET offset == IF bindoffset THEN b.curoffset ELSE 0
  IN  IF offset + size > b.totalsize THEN 0 ELSE offset

\* the size Map maps: usedsize, or the whole element when usedsize is 0
MapSize(b, usedsize) == IF usedsize > 0 THEN usedsize ELSE b.sz

RingIdle ==
  /\ ubo = GPUBufferCreate(1, 1, 1)
  /\ lastMap = [n |-> 0, offset |-> 0, size |-> 0, bound |-> FALSE]

InitRing ==
  /\ \E size \in 1..MaxBufSize, ringSize \in 1..MaxRingSize, al \in Aligns :
        ubo = GPUBufferCreate(size, ringSize, al)
  /\ lastMap = [n |-> 0, offset |-> 0, size |-> 0, bound |-> FALSE]

MaxMaps == 4

\* GPUBuffer::Map(vt, dev, bindoffset, usedsize)
Map(bindoffset, usedsize) ==
  LET size   == MapSize(ubo, usedsize)
      offset == MapOffset(ubo, bindoffset, size)
  IN  /\ lastMap.n < MaxMaps
      /\ ubo' = [ubo EXCEPT !.curoffset = AlignUp(offset + size, ubo.align)]
      /\ lastMap' = [n |-> lastMap.n + 1, offset |-> offset, size |-> size,
                     bound |-> bindoffset]
      /\ UNCHANGED exceptRing

(***************************************************************************)
(* CacheMeshDisplayPipelines: the packed key and the pipeline cache        *)
(* A key is the set of its set bits.                                       *)
(***************************************************************************)
Pow2(n) == 2 ^ n

\* the set bits of a value below 2^16
Bits(v) == { i \in 0..15 : (v \div Pow2(i)) % 2 = 1 }

\* (uint32_t)v << s for s < 32: the type of a shift is the type of its
\* promoted left operand, so bits shifted to position 32 and above are lost
Shl32(v, s) == { b + s : b \in Bits(v) } \cap (0..31)

\* (uint32_t)v << 39: the shift count is not less than the width of the
\* operand, which is undefined; a build either masks the count to 5 bits
\* (x86, AArch64) or produces zero (ARM32, constant folding)
ShiftOutcomes == {"mask", "zero"}

Shl32Undefined(v, s, outcome) ==
  IF outcome = "mask" THEN Shl32(v, s % 32) ELSE {}

\* VK_FORMAT_UNDEFINED
VkFormatUndefined == 0

\* the VkFormat of the secondary buffer: undefined when there is no buffer
SecondaryFmt(secondary) ==
  IF secondary.buf = NullHandle THEN VkFormatUndefined ELSE secondary.fmt

\* the key as the code packs it (bit = 0, 1, 7, 15, 23, 39)
MeshKey(primary, secondary, outcome) ==
  (IF primary.idxByteWidth = 4 THEN {0} ELSE {})
  \cup Shl32(primary.topo % 64, 1)
  \cup Shl32(primary.fmt % 256, 7)
  \cup Shl32(SecondaryFmt(secondary) % 256, 15)
  \cup Shl32(primary.stride % 65536, 23)
  \cup (IF secondary.buf # NullHandle
          THEN Shl32Undefined(secondary.stride % 65536, 39, outcome) ELSE {})

\* the structural signature of a lookup: index width, topology, vertex
\* formats, primary stride and, with a secondary buffer, its stride
Signature(primary, secondary) ==
  [ idxByteWidth |-> primary.idxByteWidth,
    topo         |-> primary.topo,
    primaryFmt   |-> primary.fmt,
    secondaryFmt |-> SecondaryFmt(secondary),
    stride       |-> primary.stride,
    stride2      |-> IF secondary.buf # NullHandle THEN secondary.stride ELSE 0 ]

\* MeshDisplayPipelines::ePipe_*
PipeSlots == {"Wire", "WireDepth", "Solid", "SolidDepth", "Lit", "Secondary"}

\* a default-constructed MeshDisplayPipelines: every pipe is VK_NULL_HANDLE
NoPipes == [s \in PipeSlots |-> NullHandle]

\* m_CachedMeshPipelines[key]: operator[] default-constructs a missing entry
CacheEntry(cache, key) == IF key \in DOMAIN cache THEN cache[key] ELSE NoPipes

\* the pipelines one miss creates, in creation order; handle n is the one
\* returned by the n-th CreateGraphicsPipelines call
BuildPipes(secondary, calls) ==
  IF secondary.buf # NullHandle
    THEN [ Wire |-> calls + 1, WireDepth |-> calls + 2, Solid |-> calls + 3,
           SolidDepth |-> calls + 4, Secondary |-> calls + 5, Lit |-> calls + 6 ]
    ELSE [ Wire |-> calls + 1, WireDepth |-> calls + 2, Solid |-> calls + 3,
           SolidDepth |-> calls + 4, Secondary |-> NullHandle, Lit |-> calls + 5 ]

\* a cache that never hits: a plausible slip
CacheHitNever(entry) == FALSE

\* if(cache.pipes[eShade_None] != VK_NULL_HANDLE) return cache;
CacheHit(entry) == entry.Wire # NullHandle

MaxLookups == 3

\* the vertex layouts looked up: a base layout and its variants in each
\* component of the signature (strides 12 and 524 differ by 512)
BasePrimary == [idxByteWidth |-> 2, topo |-> 3, fmt |-> 1, stride |-> 12]
NoSecondary == [buf |-> NullHandle, fmt |-> 0, stride |-> 0]
Primaries ==
  { BasePrimary,
    [BasePrimary EXCEPT !.idxByteWidth = 4],
    [BasePrimary EXCEPT !.topo = 1],
    [BasePrimary EXCEPT !.fmt = 2],
    [BasePrimary EXCEPT !.stride = 20],
    [BasePrimary EXCEPT !.stride = 524] }
Secondaries ==
  { NoSecondary,
    [buf |-> 1, fmt |-> 3, stride |-> 8],
    [buf |-> 1, fmt |-> 3, stride |-> 16],
    [buf |-> 1, fmt |-> 4, stride |-> 8] }
MeshInputs ==
  { <<p, NoSecondary>> : p \in Primaries }
  \cup { <<BasePrimary, s>> : s \in Secondaries }

MeshIdle ==
  /\ m_CachedMeshPipelines = << >>
  /\ createCalls = 0
  /\ lastLookup = [n |-> 0, sig |-> Signature(BasePrimary, NoSecondary),
                   pipes |-> NoPipes, key |-> {}, hit |-> FALSE]
  /\ served = << >>
  /\ built = << >>
  /\ shiftUB = "mask"

InitMesh ==
  /\ m_CachedMeshPipelines = << >>
  /\ createCalls = 0
  /\ lastLookup = [n |-> 0, sig |-> Signature(BasePrimary, NoSecondary),
                   pipes |-> NoPipes, key |-> {}, hit |-> FALSE]
  /\ served = << >>
  /\ built = << >>
  /\ shiftUB \in ShiftOutcomes

\* f with x mapped to v unless x is already mapped
Remember(f, x, v) ==
  IF x \in DOMAIN f THEN f
  ELSE [y \in DOMAIN f \cup {x} |-> IF y = x THEN v ELSE f[y]]

\* f with x mapped to v
Store(f, x, v) == [y \in DOMAIN f \cup {x} |-> IF y = x THEN v ELSE f[y]]

\* VulkanDebugManager::CacheMeshDisplayPipelines(primary, secondary)
CacheMeshDisplayPipelines(primary, secondary) ==
  LET key   == MeshKey(primary, secondary, shiftUB)
      entry == CacheEntry(m_CachedMeshPipelines, key)
      sig   == Signature(primary, secondary)
      hit   == CacheHit(entry)
      pipes == IF hit THEN entry ELSE BuildPipes(secondary, createCalls)
  IN  /\ lastLookup.n < MaxLookups
      /\ m_CachedMeshPipelines' = Store(m_CachedMeshPipelines, key, pipes)
      /\ createCalls' = IF hit THEN createCalls
                        ELSE createCalls + (IF secondary.buf # NullHandle THEN 6 ELSE 5)
      /\ lastLookup' = [n |-> lastLookup.n + 1, sig |-> sig, pipes |-> pipes,
                        key |-> key, hit |-> hit]
      /\ served' = Remember(served, sig, key)
      /\ built' = IF hit THEN built ELSE Remember(built, sig, pipes)
      /\ UNCHANGED shiftUB
      /\ UNCHANGED exceptMesh

(***************************************************************************)
(* Chunk serialiser: the pNext chain of a structure                        *)
(* A stream is a sequence of words.  A nullable is a presence word (0 or   *)
(* 1) followed, when present, by the value; an array is its count followed *)
(* by its elements.  Structure types are numbered 1.. for the model.       *)
(***************************************************************************)
\* VK_STRUCTURE_TYPE_PHYSICAL_DEVICE_PROTECTED_MEMORY_FEATURES: PNEXT_STRUCT
TagProtectedMemory == 1
\* VK_STRUCTURE_TYPE_PHYSICAL_DEVICE_SHADER_DRAW_PARAMETERS_FEATURES: PNEXT_STRUCT
TagDrawParameters == 2
\* VK_STRUCTURE_TYPE_PRESENT_FRAME_TOKEN_GGP: PNEXT_STRUCT in a GGP build,
\* PNEXT_UNSUPPORTED in every other build
TagFrameTokenGGP == 3
\* VK_STRUCTURE_TYPE_MAX_ENUM: a case of the switch that does nothing
TagMaxEnum == 4
\* a structure type that is no case of the switch (one a later version added)
TagUnknown == 5
\* VK_STRUCTURE_TYPE_DEVICE_CREATE_INFO and ..._DEVICE_QUEUE_CREATE_INFO
TagDeviceCreateInfo == 6
TagDeviceQueueCreateInfo == 7

\* the PNEXT_STRUCT and PNEXT_UNSUPPORTED cases of this build (not GGP)
Supported == {TagProtectedMemory, TagDrawParameters}
Unsupported == {TagFrameTokenGGP}
\* the PNEXT_STRUCT cases of the build that wrote a foreign stream: a GGP
\* build of a later version that also knows TagUnknown
ForeignSupported == {TagProtectedMemory, TagDrawParameters, TagFrameTokenGGP, TagUnknown}

\* ---- writing ----
RECURSIVE WriteNext(_, _, _, _, _)
RECURSIVE WriteWalk(_, _, _, _, _)

Emit(w, words) == [w EXCEPT !.out = @ \o words]
WLog(w, kind, tag) == [w EXCEPT !.log = Append(@, <<kind, tag>>)]

\* DoSerialise of a chain structure that forgets its member: a plausible slip
WriteStructNoMember(n, rest, w, sup, unsup) ==
  WriteNext(n.sType, rest, w, sup, unsup)

\* DoSerialise(ser, VkPhysicalDevice...Features &el), writing: SerialiseNext
\* for the rest of the chain, then the one member
WriteStruct(n, rest, w, sup, unsup) ==
  Emit(WriteNext(n.sType, rest, w, sup, unsup), <<n.val>>)

\* if(!handled) RDCERR("Invalid pNext structure sType"): handled is declared
\* outside the while loop and is never reset once a node has set it
WalkReportsInvalid(handled) == ~handled

\* the while(next) loop of the writing SerialiseNext, from the node at the
\* head of chain, with the current value of the flag handled
WriteWalk(chain, handled, w, sup, unsup) ==
  IF chain = << >>
    THEN Emit(w, <<0>>)                       \* the NULL structure type
    ELSE LET n == Head(chain) IN
      IF n.sType \in sup
        THEN \* PNEXT_STRUCT: the type, then the structure, which writes the
             \* rest of the chain itself; return
             WriteStruct(n, Tail(chain), Emit(w, <<1, n.sType, 1>>), sup, unsup)
      ELSE IF n.sType \in unsup
        THEN \* PNEXT_UNSUPPORTED: log, handled = true, skip the node
             WriteWalk(Tail(chain), TRUE, WLog(w, "unsupported", n.sType), sup, unsup)
        ELSE \* VK_STRUCTURE_TYPE_MAX_ENUM or no case at all
             WriteWalk(Tail(chain), handled,
                       IF WalkReportsInvalid(handled)
                         THEN WLog(w, "invalid", n.sType) ELSE w,
                       sup, unsup)

\* SerialiseNext(ser, sType, pNext), writing: the parent's sType, then the chain
WriteNext(sType, chain, w, sup, unsup) ==
  WriteWalk(chain, FALSE, Emit(w, <<sType>>), sup, unsup)

\* SERIALISE_MEMBER_ARRAY of plain values, writing
WriteArray(w, arr) == Emit(w, <<Len(arr)>> \o arr)

\* DoSerialise(ser, VkDeviceQueueCreateInfo &el), writing
WriteQueueInfo(q, w, sup, unsup) ==
  WriteArray(Emit(WriteNext(q.sType, q.chain, w, sup, unsup),
                  <<q.flags, q.queueFamilyIndex, q.queueCount>>),
             q.pQueuePriorities)

RECURSIVE WriteQueueInfos(_, _, _, _)
\* the elements of SERIALISE_MEMBER_ARRAY(pQueueCreateInfos, ...), writing
WriteQueueInfos(qs, w, sup, unsup) ==
  IF qs = << >> THEN w
  ELSE WriteQueueInfos(Tail(qs), WriteQueueInfo(Head(qs), w, sup, unsup), sup, unsup)

\* DoSerialise(ser, VkDeviceCreateInfo &el), writing
WriteDeviceCreateInfo(el, sup, unsup) ==
  LET w0 == [out |-> << >>, log |-> << >>]
      w1 == WriteNext(el.sType, el.chain, w0, sup, unsup)
      w2 == Emit(w1, <<el.flags, el.queueCreateInfoCount, Len(el.pQueueCreateInfos)>>)
      w3 == WriteQueueInfos(el.pQueueCreateInfos, w2, sup, unsup)
      w4 == WriteArray(Emit(w3, <<el.enabledLayerCount>>), el.ppEnabledLayerNames)
      w5 == WriteArray(Emit(w4, <<el.enabledExtensionCount>>), el.ppEnabledExtensionNames)
  IN  IF el.pEnabledFeatures = << >> THEN Emit(w5, <<0>>)
      ELSE Emit(w5, <<1>> \o el.pEnabledFeatures)

\* ---- reading ----
\* the reader: position of the next word, error flag, RDCERR log, the heap
\* allocations made (each named by its kind and the position of its
\* presence or count word) and those deleted again, and where the first
\* unsupported or invalid chain tag ended
NewReader ==
  [pos |-> 1, err |-> FALSE, log |-> << >>, allocs |-> << >>, freed |-> << >>,
   stopKind |-> "none", stopAt |-> 0]

\* one word off the stream; an errored reader reads nothing and yields 0,
\* and reading past the end of the stream is an error
RdWord(st, r) ==
  IF r.err THEN [r |-> r, v |-> 0]
  ELSE IF r.pos > Len(st) THEN [r |-> [r EXCEPT !.err = TRUE], v |-> 0]
  ELSE [r |-> [r EXCEPT !.pos = @ + 1], v |-> st[r.pos]]

New(r, id) == [r EXCEPT !.allocs = Append(@, id)]
Delete(r, id) == [r EXCEPT !.freed = Append(@, id)]
RLog(r, kind, tag) == [r EXCEPT !.log = Append(@, <<kind, tag>>)]
Stopped(r, kind) ==
  IF r.stopKind = "none" THEN [r EXCEPT !.stopKind = kind, !.stopAt = r.pos] ELSE r

\* PNEXT_UNSUPPORTED on read without ser.SetErrored(): a plausible slip
ReadUnsupportedNoError(r, tag) ==
  Stopped(RLog(r, "unsupported", tag), "unsupported")

\* PNEXT_UNSUPPORTED on read: RDCERR; pNext = NULL; ser.SetErrored(); return
ReadUnsupported(r, tag) ==
  [Stopped(RLog(r, "unsupported", tag), "unsupported") EXCEPT !.err = TRUE]

\* no case, or VK_STRUCTURE_TYPE_MAX_ENUM, on read: handled stays false, so
\* RDCERR("Invalid next structure sType"); the reader is not put in error
ReadInvalid(r, tag) == Stopped(RLog(r, "invalid", tag), "invalid")

\* F applied to the value of v: the sequencing of two steps of a routine,
\* the second using what the first produced
Bind(v, F(_)) == CHOOSE x \in { F(a) : a \in {v} } : TRUE

RECURSIVE ReadNext(_, _, _, _)

\* DoSerialise(ser, VkPhysicalDevice...Features &el), reading, behind the
\* presence word of SerialiseNullable("pNext", nextStruct): the structure is
\* allocated, SerialiseNext reads its sType and the rest of the chain, then
\* the one member is read
ReadStruct(st, r, sup, unsup) ==
  Bind(RdWord(st, r), LAMBDA p :
    IF p.v = 0 THEN [r |-> p.r, chain |-> << >>]
    ELSE Bind(ReadNext(st, New(p.r, <<"struct", r.pos>>), sup, unsup), LAMBDA n :
         Bind(RdWord(st, n.r), LAMBDA m :
           [r |-> m.r,
            chain |-> <<[sType |-> n.sType, val |-> m.v, id |-> <<"struct", r.pos>>]>>
                      \o n.chain])))

\* the switch of the reading SerialiseNext on the structure type t.v it read
\* into the allocation id
ReadNextCase(st, t, sType, id, sup, unsup) ==
  IF t.v \in unsup
    THEN \* returns before delete nextType
         [r |-> ReadUnsupported(t.r, t.v), sType |-> sType, chain |-> << >>]
  ELSE IF t.v \in sup
    THEN Bind(ReadStruct(st, t.r, sup, unsup), LAMBDA n :
           [r |-> Delete(n.r, id), sType |-> sType, chain |-> n.chain])
    ELSE [r |-> Delete(ReadInvalid(t.r, t.v), id), sType |-> sType, chain |-> << >>]

\* SerialiseNext(ser, sType, pNext), reading: the parent's sType, then
\* SerialiseNullable("pNext", nextType)
ReadNext(st, r, sup, unsup) ==
  Bind(RdWord(st, r), LAMBDA s :
  Bind(RdWord(st, s.r), LAMBDA p :
    IF p.v = 0 THEN [r |-> p.r, sType |-> s.v, chain |-> << >>]
    ELSE Bind(RdWord(st, New(p.r, <<"nextType", s.r.pos>>)), LAMBDA t :
           ReadNextCase(st, t, s.v, <<"nextType", s.r.pos>>, sup, unsup))))

RECURSIVE RdWords(_, _, _)
\* n plain values off the stream
RdWords(st, r, n) ==
  IF n = 0 THEN [r |-> r, vals |-> << >>]
  ELSE Bind(RdWord(st, r), LAMBDA a :
       Bind(RdWords(st, a.r, n - 1), LAMBDA b :
         [r |-> b.r, vals |-> <<a.v>> \o b.vals]))

\* SERIALISE_MEMBER_ARRAY of plain values, reading: the count, and an array
\* allocated with new[] when the count is not zero
ReadArray(st, r) ==
  Bind(RdWord(st, r), LAMBDA c :
    IF c.v = 0 THEN [r |-> c.r, vals |-> << >>, id |-> << >>]
    ELSE Bind(RdWords(st, New(c.r, <<"array", r.pos>>), c.v), LAMBDA e :
           [r |-> e.r, vals |-> e.vals, id |-> <<"array", r.pos>>]))

\* DoSerialise(ser, VkDeviceQueueCreateInfo &el), reading
ReadQueueInfo(st, r, sup, unsup) ==
  Bind(ReadNext(st, r, sup, unsup), LAMBDA n :
  Bind(RdWords(st, n.r, 3), LAMBDA f :
  Bind(ReadArray(st, f.r), LAMBDA a :
    [r |-> a.r,
     el |-> [sType |-> n.sType, chain |-> n.chain, flags |-> f.vals[1],
             queueFamilyIndex |-> f.vals[2], queueCount |-> f.vals[3],
             pQueuePriorities |-> a.vals, prioritiesId |-> a.id]])))

RECURSIVE ReadQueueInfos(_, _, _, _, _)
\* the elements of SERIALISE_MEMBER_ARRAY(pQueueCreateInfos, ...), reading
ReadQueueInfos(st, r, n, sup, unsup) ==
  IF n = 0 THEN [r |-> r, els |-> << >>]
  ELSE Bind(ReadQueueInfo(st, r, sup, unsup), LAMBDA a :
       Bind(ReadQueueInfos(st, a.r, n - 1, sup, unsup), LAMBDA b :
         [r |-> b.r, els |-> <<a.el>> \o b.els]))

\* SERIALISE_MEMBER_ARRAY(pQueueCreateInfos, queueCreateInfoCount), reading:
\* the count, the array allocated with new[] when it is not zero, the elements
ReadQueueInfoArray(st, r, sup, unsup) ==
  Bind(RdWord(st, r), LAMBDA c :
    Bind(ReadQueueInfos(st, IF c.v = 0 THEN c.r ELSE New(c.r, <<"array", r.pos>>),
                        c.v, sup, unsup), LAMBDA q :
      [r |-> q.r, els |-> q.els,
       id |-> IF c.v = 0 THEN << >> ELSE <<"array", r.pos>>]))

\* SERIALISE_MEMBER_OPT(pEnabledFeatures), reading: the presence word and,
\* when present, the structure allocated with new
ReadOptFeatures(st, r) ==
  Bind(RdWord(st, r), LAMBDA o :
    IF o.v = 0 THEN [r |-> o.r, vals |-> << >>, id |-> << >>]
    ELSE Bind(RdWords(st, New(o.r, <<"features", r.pos>>), 1), LAMBDA ft :
           [r |-> ft.r, vals |-> ft.vals, id |-> <<"features", r.pos>>]))

\* DoSerialise(ser, VkDeviceCreateInfo &el), reading
ReadDeviceCreateInfo(st, sup, unsup) ==
  Bind(ReadNext(st, NewReader, sup, unsup), LAMBDA n :
  Bind(RdWords(st, n.r, 2), LAMBDA f :
  Bind(ReadQueueInfoArray(st, f.r, sup, unsup), LAMBDA q :
  Bind(RdWord(st, q.r), LAMBDA lc :
  Bind(ReadArray(st, lc.r), LAMBDA l :
  Bind(RdWord(st, l.r), LAMBDA ec :
  Bind(ReadArray(st, ec.r), LAMBDA e :
  Bind(ReadOptFeatures(st, e.r), LAMBDA ft :
    [r |-> ft.r,
     el |-> [sType |-> n.sType, chain |-> n.chain, flags |-> f.vals[1],
             queueCreateInfoCount |-> f.vals[2],
             pQueueCreateInfos |-> q.els, queueInfosId |-> q.id,
             enabledLayerCount |-> lc.v,
             ppEnabledLayerNames |-> l.vals, layerNamesId |-> l.id,
             enabledExtensionCount |-> ec.v,
             ppEnabledExtensionNames |-> e.vals, extensionNamesId |-> e.id,
             pEnabledFeatures |-> ft.vals, featuresId |-> ft.id]]))))))))

\* ---- releasing ----
\* the effect of a release: the allocations deleted, in order, what was
\* logged, and whether the call never returns
Released == [freed |-> << >>, log |-> << >>, diverged |-> FALSE]

\* b after a; nothing follows a call that never returns
Then(a, b) ==
  Bind(a, LAMBDA x :
    IF x.diverged THEN x
    ELSE Bind(b, LAMBDA y :
           [freed |-> x.freed \o y.freed, log |-> x.log \o y.log,
            diverged |-> y.diverged]))

\* delete p / delete[] p; deleting NULL does nothing
DeleteOf(id) ==
  IF id = << >> THEN Released ELSE [Released EXCEPT !.freed = <<id>>]

\* DeserialiseNext(pNext) on the first link of chain:
\*   NULL: return
\*   PNEXT_UNSUPPORTED: RDCERR; return
\*   PNEXT_STRUCT: Deserialise(nextType) with nextType a VkStructureType *,
\*     which is the release of a plain pointer value and frees nothing;
\*     return, before delete gen
\*   VK_STRUCTURE_TYPE_MAX_ENUM: DeserialiseNext(gen), the same link again
\*   no case: delete gen
DeserialiseNext(chain, sup, unsup) ==
  IF chain = << >> THEN Released
  ELSE LET gen == Head(chain) IN
    IF gen.sType \in unsup
      THEN [Released EXCEPT !.log = <<<<"unsupported", gen.sType>>>>]
    ELSE IF gen.sType \in sup THEN Released
    ELSE IF gen.sType = TagMaxEnum THEN [Released EXCEPT !.diverged = TRUE]
    ELSE DeleteOf(gen.id)

\* Deserialise(const VkDeviceQueueCreateInfo &el)
DeserialiseQueueInfo(el, sup, unsup) ==
  Then(DeserialiseNext(el.chain, sup, unsup), DeleteOf(el.prioritiesId))

RECURSIVE DeserialiseQueueInfos(_, _, _, _, _)
\* for(i = 0; el.pQueueCreateInfos && i < el.queueCreateInfoCount; i++)
\*   Deserialise(el.pQueueCreateInfos[i]);
DeserialiseQueueInfos(els, i, count, sup, unsup) ==
  IF els = << >> \/ i >= count \/ i >= Len(els) THEN Released
  ELSE Then(DeserialiseQueueInfo(els[i + 1], sup, unsup),
            DeserialiseQueueInfos(els, i + 1, count, sup, unsup))

\* Deserialise(const VkDeviceCreateInfo &el)
DeserialiseDeviceCreateInfo(el, sup, unsup) ==
  Then(DeserialiseNext(el.chain, sup, unsup),
  Then(DeserialiseQueueInfos(el.pQueueCreateInfos, 0, el.queueCreateInfoCount, sup, unsup),
  Then(DeleteOf(el.queueInfosId),
  Then(DeleteOf(el.extensionNamesId),
  Then(DeleteOf(el.layerNamesId), DeleteOf(el.featuresId))))))

\* ---- the structures serialised ----
MaxChain == 2
MaxElemChain == 1

\* the links of a chain: the two supported structures, with different values
\* of their VkBool32 member, and one link of each other kind of tag
Links ==
  { [sType |-> TagProtectedMemory, val |-> 0], [sType |-> TagDrawParameters, val |-> 1] }
  \cup { [sType |-> t, val |-> 1] : t \in {TagFrameTokenGGP, TagMaxEnum, TagUnknown} }

RECURSIVE ChainsUpTo(_)
ChainsUpTo(n) ==
  IF n = 0 THEN { << >> }
  ELSE LET shorter == ChainsUpTo(n - 1)
       IN  shorter \cup { <<l>> \o c : l \in Links, c \in { d \in shorter : Len(d) = n - 1 } }

QueueInfos ==
  { [sType |-> TagDeviceQueueCreateInfo, chain |-> c, flags |-> 0,
     queueFamilyIndex |-> 1, queueCount |-> Len(p), pQueuePriorities |-> p]
      : c \in ChainsUpTo(MaxElemChain), p \in { << >>, <<1>> } }

DeviceCreateInfos ==
  { [sType |-> TagDeviceCreateInfo, chain |-> c, flags |-> 0,
     queueCreateInfoCount |-> Len(qs), pQueueCreateInfos |-> qs,
     enabledLayerCount |-> 0, ppEnabledLayerNames |-> << >>,
     enabledExtensionCount |-> Len(e), ppEnabledExtensionNames |-> e,
     pEnabledFeatures |-> f]
      : c \in ChainsUpTo(MaxChain),
        qs \in { << >> } \cup { <<q>> : q \in QueueInfos },
        e \in { << >>, <<1>> },
        f \in { << >>, <<1>> } }

NoRead == [r |-> NewReader, el |-> << >>, origin |-> "none"]

SerIdle ==
  /\ pIn = << >>
  /\ stream = << >>
  /\ wlog = << >>
  /\ rd = NoRead
  /\ rel = Released
  /\ serPhase = "idle"

InitSer ==
  /\ pIn \in DeviceCreateInfos
  /\ stream = << >>
  /\ wlog = << >>
  /\ rd = NoRead
  /\ rel = Released
  /\ serPhase = "init"

\* the structure is written by this build
SerWrite ==
  /\ serPhase = "init"
  /\ LET w == WriteDeviceCreateInfo(pIn, Supported, Unsupported)
     IN  stream' = w.out /\ wlog' = w.log
  /\ serPhase' = "written"
  /\ UNCHANGED <<pIn, rd, rel>>
  /\ UNCHANGED exceptSer

\* the structure was written by another build, which has every structure of
\* the chain compiled in
SerWriteForeign ==
  /\ serPhase = "init"
  /\ LET w == WriteDeviceCreateInfo(pIn, ForeignSupported, {})
     IN  stream' = w.out /\ wlog' = w.log
  /\ serPhase' = "foreign"
  /\ UNCHANGED <<pIn, rd, rel>>
  /\ UNCHANGED exceptSer

\* the stream is read by this build
SerRead ==
  /\ serPhase \in {"written", "foreign"}
  /\ LET x == ReadDeviceCreateInfo(stream, Supported, Unsupported)
     IN  rd' = [r |-> x.r, el |-> x.el, origin |-> serPhase]
  /\ serPhase' = "read"
  /\ UNCHANGED <<pIn, stream, wlog, rel>>
  /\ UNCHANGED exceptSer

\* the decoded structure is released
SerRelease ==
  /\ serPhase = "read"
  /\ rel' = DeserialiseDeviceCreateInfo(rd.el, Supported, Unsupported)
  /\ serPhase' = "released"
  /\ UNCHANGED <<pIn, stream, wlog, rd>>
  /\ UNCHANGED exceptSer

NextSer == SerWrite \/ SerWriteForeign \/ SerRead \/ SerRelease

(***************************************************************************)
(* RenderOverlay                                                           *)
(* The call is a sequence of steps, one action each, so that the order of  *)
(* its calls into the driver is visible; ov.pc is its position.            *)
(***************************************************************************)
\* TextureDisplayOverlay
HighlightOne == {"Drawcall", "Wireframe"}
HighlightTwo == {"BackfaceCull", "Depth", "Stencil"}
Highlighting == HighlightOne \cup HighlightTwo
ClearOnly == {"NaN", "Clipping"}
Overlays == Highlighting \cup ClearOnly \cup {"ViewportScissor", "None"}

\* the value of a handle variable that was declared without an initialiser
\* and not assigned: VK_NULL_HANDLE or whatever the stack held
GarbageHandle == -1

\* the handle the next vkCreate* returns
NextHandle(os) == Cardinality(DOMAIN os) + 1

\* the table after one vkCreate* / vkAllocMemory for each entry of news, in order
CreatedAll(os, news) ==
  [h \in DOMAIN os \cup (NextHandle(os)..(NextHandle(os) + Len(news) - 1)) |->
     IF h \in DOMAIN os THEN os[h]
     ELSE [kind |-> news[h - NextHandle(os) + 1].kind, destroys |-> 0,
           info |-> news[h - NextHandle(os) + 1].info]]

RECURSIVE DestroyAll(_, _)
\* vkDestroy* / vkFreeMemory of the handles of a sequence, in order
DestroyAll(os, hs) ==
  IF hs = << >> THEN os
  ELSE DestroyAll(IF Head(hs) \in DOMAIN os
                    THEN [os EXCEPT ![Head(hs)].destroys = @ + 1] ELSE os,
                  Tail(hs))

Strays(os, hs) == Cardinality({ i \in 1..Len(hs) : hs[i] \notin DOMAIN os })

\* what an unassigned handle of one kind can hold: null, a value that is no
\* handle, or the handle an earlier call left in the same stack slot
Uninitialised(os, kind) ==
  {NullHandle, GarbageHandle} \cup { h \in DOMAIN os : os[h].kind = kind }

\* mrq.size of vkGetImageMemoryRequirements for an R16G16B16A16 image
ImageMemSize(dim) == dim.width * dim.height * 8

\* ---- lines 1994-2131: the overlay image and its view, pass, framebuffer
\* what is destroyed when the image has the wrong size
WrongSize(o, dim) ==
  o.image # NullHandle /\ (dim.width # o.dim.width \/ dim.height # o.dim.height)

\* memory allocated anew for every new image
ReallocAlways(o, dim) == TRUE

\* "if no memory is allocated, or it's not enough, then allocate"
Realloc(o, dim) == o.mem = NullHandle \/ ImageMemSize(dim) > o.memSize

\* the object table after the preamble of RenderOverlay: the image of the
\* wrong size and its view, pass and framebuffer are destroyed, memory that
\* is too small is freed, and what is missing is created
OverlayObjects(os, o, dim) ==
  IF ~WrongSize(o, dim) /\ o.image # NullHandle THEN os
  ELSE LET h == NextHandle(os)
           m == IF Realloc(o, dim) THEN 1 ELSE 0
       IN  CreatedAll(
             DestroyAll(os, (IF WrongSize(o, dim) THEN <<o.rp, o.fb, o.view, o.image>>
                             ELSE << >>)
                            \o (IF Realloc(o, dim) /\ o.mem # NullHandle
                                  THEN <<o.mem>> ELSE << >>)),
             <<[kind |-> "image", info |-> dim]>>
             \o (IF Realloc(o, dim)
                   THEN <<[kind |-> "memory", info |-> ImageMemSize(dim)]>> ELSE << >>)
             \o <<[kind |-> "imageview", info |-> h],
                  [kind |-> "renderpass", info |-> "nodepth"],
                  [kind |-> "framebuffer", info |-> h + m + 2]>>)

\* the members after the preamble of RenderOverlay (os: the table before it)
OverlayMembers(os, o, dim) ==
  IF ~WrongSize(o, dim) /\ o.image # NullHandle THEN o
  ELSE LET h == NextHandle(os)
           m == IF Realloc(o, dim) THEN 1 ELSE 0
       IN  [image |-> h,
            mem |-> IF Realloc(o, dim) THEN h + 1 ELSE o.mem,
            memSize |-> IF Realloc(o, dim) THEN ImageMemSize(dim) ELSE o.memSize,
            view |-> h + m + 1, rp |-> h + m + 2, fb |-> h + m + 3,
            dim |-> dim]

NoOverlay ==
  [image |-> NullHandle, view |-> NullHandle, rp |-> NullHandle, fb |-> NullHandle,
   mem |-> NullHandle, memSize |-> 0, dim |-> [width |-> 0, height |-> 0]]

\* ---- the replay state ----
MaxScissor == 4096
\* the dynamic scissors of the state: none, or two rectangles
ScissorLists ==
  { << >>,
    << [x |-> 1, y |-> 2, width |-> 3, height |-> 4],
       [x |-> 0, y |-> 0, width |-> 8, height |-> 8] >> }

\* handles of the captured application's pipeline, render pass, framebuffer
AppPipeline == 101
AppRenderPass == 102
AppFramebuffer == 103

ReplayStates ==
  [ pipeline : {AppPipeline}, renderPass : {AppRenderPass}, subpass : {0, 1},
    framebuffer : {AppFramebuffer}, scissors : ScissorLists,
    lineWidth : {1, 2} ]

\* "set dynamic scissors in case pipeline was using them": offset.x is
\* assigned twice and offset.y is not assigned
ScissorsSetToMax(scissors) ==
  [i \in 1..Len(scissors) |->
     [scissors[i] EXCEPT !.x = 0, !.width = MaxScissor, !.height = MaxScissor]]

\* "modify state"
StateModified(st, o, pipe, overlay) ==
  [st EXCEPT !.renderPass = o.rp, !.subpass = 0, !.framebuffer = o.fb,
             !.pipeline = pipe,
             !.scissors = ScissorsSetToMax(@),
             !.lineWidth = IF overlay = "Wireframe" THEN 1 ELSE @]

\* a restore that leaves the dynamic scissors as the overlay set them
StateRestoredButScissors(st, prevstate) == [prevstate EXCEPT !.scissors = st.scissors]

\* "restore state": m_PartialReplayData.state = prevstate
StateRestored(st, prevstate) == prevstate

\* the second pass binds pipe[1] and, for the depth and stencil overlays
\* with a depth render pass, that pass and its framebuffer
StateSecondPass(st, call) ==
  IF call.overlay \in {"Depth", "Stencil"} /\ call.depthRP # NullHandle
    THEN [st EXCEPT !.pipeline = call.pipe[2], !.renderPass = call.depthRP,
                    !.framebuffer = call.depthFB]
    ELSE [st EXCEPT !.pipeline = call.pipe[2]]

\* a destroy list that forgets the shaders
EphemeralDestroysNoShader(call) ==
  IF call.overlay \in HighlightOne THEN <<call.pipe[1], call.mod[1]>>
  ELSE <<call.pipe[1], call.mod[1], call.pipe[2], call.mod[2]>>
       \o (IF call.overlay \in {"Depth", "Stencil"} /\ call.depthRP # NullHandle
             THEN <<call.depthRP, call.depthFB>> ELSE << >>)

\* the handles the end of a highlighting branch destroys, in order
EphemeralDestroys(call) ==
  IF call.overlay \in HighlightOne
    THEN <<call.pipe[1], call.mod[1], call.shad[1]>>
    ELSE <<call.pipe[1], call.mod[1], call.shad[1],
           call.pipe[2], call.mod[2], call.shad[2]>>
         \o (IF call.overlay \in {"Depth", "Stencil"} /\ call.depthRP # NullHandle
               THEN <<call.depthRP, call.depthFB>> ELSE << >>)

MaxRequests == 2
TexDims == { [width |-> 1, height |-> 1], [width |-> 2, height |-> 1] }

\* creation info of the application's render pass and framebuffer: the
\* depthstencilAttachment of each subpass (-1: none) and the number of
\* attachments of the framebuffer
DepthStencilAttachment(subpass) == IF subpass = 0 THEN 0 ELSE -1
FramebufferAttachments == 1

\* dsIdx >= 0 && dsIdx < attachments.size()
HasDepthAttachment(st) ==
  /\ DepthStencilAttachment(st.subpass) >= 0
  /\ DepthStencilAttachment(st.subpass) < FramebufferAttachments

NoCall ==
  [pc |-> "idle", n |-> 0, overlay |-> "None",
   before |-> << >>, prevstate |-> << >>, mod |-> << >>, shad |-> << >>,
   pipe |-> << >>, depthRP |-> NullHandle, depthFB |-> NullHandle,
   eph |-> {}, replays |-> 0, flushes |-> 0, dim |-> [width |-> 0, height |-> 0]]

OvIdle ==
  /\ state = [pipeline |-> AppPipeline, renderPass |-> AppRenderPass, subpass |-> 0,
              framebuffer |-> AppFramebuffer, scissors |-> << >>, lineWidth |-> 1]
  /\ objs = << >>
  /\ strayDestroys = 0
  /\ ovl = NoOverlay
  /\ ov = NoCall

InitOverlay ==
  /\ state \in ReplayStates
  /\ objs = << >>
  /\ strayDestroys = 0
  /\ ovl = NoOverlay
  /\ ov = NoCall

\* RenderOverlay is entered: lines 1981-2147 and 2288-2372; the branches that
\* only record clears and draws of the manager's own pipelines are complete
\* with this step.  active: m_PartialReplayData.renderPassActive.
RenderOverlayBegin(dim, overlay, active) ==
  /\ ov.pc = "idle"
  /\ ov.n < MaxRequests
  /\ objs' = OverlayObjects(objs, ovl, dim)
  /\ ovl' = OverlayMembers(objs, ovl, dim)
  /\ ov' = [NoCall EXCEPT !.pc = IF active /\ overlay \in Highlighting
                                   THEN "setup" ELSE "end",
                          !.n = ov.n, !.overlay = overlay, !.before = state,
                          !.dim = dim]
  /\ UNCHANGED <<state, strayDestroys>>
  /\ UNCHANGED exceptOverlay

\* the objects a highlighting branch creates, in order: the depth render
\* pass and framebuffer (made), PatchFixedColShader for each pass, the
\* pipeline of each pass; h is the first handle, rp2 the second pipeline's pass
EphemeralCreated(h, made, two, rp, rp2) ==
  LET d == IF made THEN 2 ELSE 0 IN
  (IF made THEN <<[kind |-> "renderpass", info |-> "depth"],
                  [kind |-> "framebuffer", info |-> h]>> ELSE << >>)
  \o <<[kind |-> "shadermodule", info |-> "pass0"], [kind |-> "shader", info |-> h + d]>>
  \o (IF two THEN <<[kind |-> "shadermodule", info |-> "pass1"],
                    [kind |-> "shader", info |-> h + d + 2]>> ELSE << >>)
  \o <<[kind |-> "pipeline", info |-> [renderPass |-> rp, shader |-> h + d + 1]]>>
  \o (IF two THEN <<[kind |-> "pipeline",
                     info |-> [renderPass |-> rp2, shader |-> h + d + 3]]>> ELSE << >>)

\* lines 2163-2249, 2382-2478, 2527-2713: the depth render pass and
\* framebuffer (depth and stencil overlays with a depth attachment), the
\* backup of the state, PatchFixedColShader for each pass and the pipelines.
\* uninitRP, uninitFB: what depthRP and depthFB hold when not assigned.
OverlaySetup(uninitRP, uninitFB) ==
  /\ ov.pc = "setup"
  /\ LET two     == ov.overlay \in HighlightTwo
         depth   == ov.overlay \in {"Depth", "Stencil"}
         made    == depth /\ HasDepthAttachment(state)
         h       == NextHandle(objs)
         d       == IF made THEN 2 ELSE 0
         depthRP == IF made THEN h ELSE IF depth THEN uninitRP ELSE NullHandle
         depthFB == IF made THEN h + 1 ELSE IF depth THEN uninitFB ELSE NullHandle
         rp2     == IF depth /\ depthRP # NullHandle THEN depthRP ELSE ovl.rp
         news    == EphemeralCreated(h, made, two, ovl.rp, rp2)
     IN  /\ objs' = CreatedAll(objs, news)
         /\ ov' = [ov EXCEPT !.pc = "mutate",
                             !.prevstate = state,
                             !.mod = IF two THEN <<h + d, h + d + 2>> ELSE <<h + d>>,
                             !.shad = IF two THEN <<h + d + 1, h + d + 3>>
                                      ELSE <<h + d + 1>>,
                             !.pipe = IF two THEN <<h + d + 4, h + d + 5>>
                                      ELSE <<h + d + 2>>,
                             !.depthRP = depthRP, !.depthFB = depthFB,
                             !.eph = h..(h + Len(news) - 1)]
  /\ UNCHANGED <<state, strayDestroys, ovl>>
  /\ UNCHANGED exceptOverlay

\* "modify state" up to the first ReplayLog
OverlayMutate ==
  /\ ov.pc = "mutate"
  /\ state' = StateModified(state, ovl, ov.pipe[1], ov.overlay)
  /\ ov' = [ov EXCEPT !.pc = "replay1"]
  /\ UNCHANGED <<objs, strayDestroys, ovl>>
  /\ UNCHANGED exceptOverlay

\* a replay of a one-pass overlay that goes on to the restore without
\* SubmitCmds and FlushQ
OverlayReplayNoFlush ==
  /\ ov.pc = "replay1"
  /\ ov' = [ov EXCEPT !.pc = IF ov.overlay \in HighlightTwo THEN "replay2" ELSE "restore",
                      !.replays = @ + 1]
  /\ UNCHANGED <<state, objs, strayDestroys, ovl>>
  /\ UNCHANGED exceptOverlay

\* m_pDriver->ReplayLog(frameID, 0, eventID, eReplay_OnlyDraw)
OverlayReplay ==
  /\ ov.pc = "replay1"
  /\ ov' = [ov EXCEPT !.pc = IF ov.overlay \in HighlightTwo THEN "replay2" ELSE "flush",
                      !.replays = @ + 1]
  /\ UNCHANGED <<state, objs, strayDestroys, ovl>>
  /\ UNCHANGED exceptOverlay

\* the second pass of the two-pass overlays: bind pipe[1], ReplayLog
OverlayReplaySecond ==
  /\ ov.pc = "replay2"
  /\ state' = StateSecondPass(state, ov)
  /\ ov' = [ov EXCEPT !.pc = "flush", !.replays = @ + 1]
  /\ UNCHANGED <<objs, strayDestroys, ovl>>
  /\ UNCHANGED exceptOverlay

\* m_pDriver->SubmitCmds(); m_pDriver->FlushQ();
OverlayFlush ==
  /\ ov.pc = "flush"
  /\ ov' = [ov EXCEPT !.pc = "restore", !.flushes = @ + 1]
  /\ UNCHANGED <<state, objs, strayDestroys, ovl>>
  /\ UNCHANGED exceptOverlay

\* "restore state"
OverlayRestore ==
  /\ ov.pc = "restore"
  /\ state' = StateRestored(state, ov.prevstate)
  /\ ov' = [ov EXCEPT !.pc = "destroy"]
  /\ UNCHANGED <<objs, strayDestroys, ovl>>
  /\ UNCHANGED exceptOverlay

\* vkDestroyPipeline, vkDestroyShaderModule, vkDestroyShader for each pass,
\* vkDestroyRenderPass and vkDestroyFramebuffer if(depthRP != VK_NULL_HANDLE)
OverlayDestroy ==
  /\ ov.pc = "destroy"
  /\ objs' = DestroyAll(objs, EphemeralDestroys(ov))
  /\ strayDestroys' = strayDestroys + Strays(objs, EphemeralDestroys(ov))
  /\ ov' = [ov EXCEPT !.pc = "end"]
  /\ UNCHANGED <<state, ovl>>
  /\ UNCHANGED exceptOverlay

\* EndCommandBuffer; return GetResID(m_OverlayImage): the locals are gone
RenderOverlayReturn ==
  /\ ov.pc = "end"
  /\ ov' = [NoCall EXCEPT !.n = ov.n + 1]
  /\ UNCHANGED <<state, objs, strayDestroys, ovl>>
  /\ UNCHANGED exceptOverlay

NextOverlay ==
  \/ \E dim \in TexDims, overlay \in Overlays, active \in BOOLEAN :
       RenderOverlayBegin(dim, overlay, active)
  \/ \E uninitRP \in Uninitialised(objs, "renderpass"),
        uninitFB \in Uninitialised(objs, "framebuffer") : OverlaySetup(uninitRP, uninitFB)
  \/ OverlayMutate
  \/ OverlayReplay
  \/ OverlayReplaySecond
  \/ OverlayFlush
  \/ OverlayRestore
  \/ OverlayDestroy
  \/ RenderOverlayReturn

(***************************************************************************)
(* Handles serialised through resource ids: OptionalResources and          *)
(* DoSerialiseViaResourceId                                                *)
(***************************************************************************)
\* ResourceId(): the null id
NullId == 0
\* the ids a stream can hold: null, two with a live resource, one without
LiveIds == {1, 2}
ResourceIds == {NullId, 1, 2, 3}

\* rm->GetLiveHandle<type>(id): the wrapped handle of a live resource
GetLiveHandle(id) == 10 + id
\* GetResID(el), for a handle GetLiveHandle gave out
GetResID(h) == IF h = NullHandle THEN NullId ELSE h - 10
\* the values the handle variable can hold when the call is made
Handles == {NullHandle} \cup { GetLiveHandle(id) : id \in LiveIds }

\* OptionalResourcesEnabled()
OptionalResourcesEnabled(counter) == counter > 0

\* whether the handle is assigned at all: ser.IsReading() && rm &&
\* !IsStructuredExporting(rm->GetState())
Translates(reading, rm, exporting) == reading /\ rm /\ ~exporting

\* a translation that leaves the handle as it was when nothing is live
ResolvedHandleKeepsOld(old, id) ==
  IF id # NullId /\ id \in LiveIds THEN GetLiveHandle(id) ELSE old

\* el = VK_NULL_HANDLE; if(id != ResourceId() && rm) if(rm->HasLiveResource(id))
\*   el = rm->GetLiveHandle<type>(id);
ResolvedHandle(old, id) ==
  IF id # NullId /\ id \in LiveIds THEN GetLiveHandle(id) ELSE NullHandle

\* a warning for every id without a live resource, whatever the scope
WarnsMissingAlways(id, counter) == id # NullId /\ id \notin LiveIds

\* else if(!OptionalResourcesEnabled()) RDCWARN("Capture may be missing
\* reference to ...")
WarnsMissing(id, counter) ==
  id # NullId /\ id \notin LiveIds /\ ~OptionalResourcesEnabled(counter)

MaxScopes == 2
MaxResolves == 3

NoResolve ==
  [n |-> 0, reading |-> FALSE, rm |-> FALSE, exporting |-> FALSE, id |-> NullId,
   old |-> NullHandle, optional |-> FALSE, warned |-> FALSE, depth |-> 0]

ResIdle ==
  /\ Counter = 0
  /\ scopes = << >>
  /\ resEl = NullHandle
  /\ lastRes = NoResolve

InitRes ==
  /\ Counter = 0
  /\ scopes = << >>
  /\ resEl \in Handles
  /\ lastRes = NoResolve

\* the constructor of OptionalResources<SerialiserType>: Counter++ for a
\* reading serialiser, nothing for a writing one
OptionalResourcesCtor(reading, counter) == IF reading THEN counter + 1 ELSE counter

\* a destructor that ends every scope at once
OptionalResourcesDtorAll(reading, counter) == IF reading THEN 0 ELSE counter

\* the destructor: Counter-- for a reading serialiser
OptionalResourcesDtor(reading, counter) == IF reading THEN counter - 1 ELSE counter

\* OPTIONAL_RESOURCES(): auto opt = ScopedOptional(ser), the object being
\* constructed in place
ScopedOptional(reading) ==
  /\ Len(scopes) < MaxScopes
  /\ Counter' = OptionalResourcesCtor(reading, Counter)
  /\ scopes' = Append(scopes, [reading |-> reading, prior |-> Counter])
  /\ UNCHANGED <<resEl, lastRes>>
  /\ UNCHANGED exceptRes

\* the end of the innermost scope: the destructor of its object
ScopedOptionalEnd ==
  /\ scopes # << >>
  /\ Counter' = OptionalResourcesDtor(scopes[Len(scopes)].reading, Counter)
  /\ scopes' = SubSeq(scopes, 1, Len(scopes) - 1)
  /\ UNCHANGED <<resEl, lastRes>>
  /\ UNCHANGED exceptRes

\* DoSerialiseViaResourceId(ser, el); streamId is the id in the stream when
\* reading; when writing the id is GetResID(el), or the null id without a
\* resource manager
DoSerialiseViaResourceId(reading, rm, exporting, streamId) ==
  LET id == IF reading THEN streamId ELSE IF rm THEN GetResID(resEl) ELSE NullId
      tr == Translates(reading, rm, exporting)
  IN  /\ lastRes.n < MaxResolves
      /\ resEl' = IF tr THEN ResolvedHandle(resEl, id) ELSE resEl
      /\ lastRes' = [n |-> lastRes.n + 1, reading |-> reading, rm |-> rm,
                     exporting |-> exporting, id |-> id, old |-> resEl,
                     optional |-> OptionalResourcesEnabled(Counter),
                     warned |-> tr /\ WarnsMissing(id, Counter),
                     depth |-> Len(scopes)]
      /\ UNCHANGED <<Counter, scopes>>
      /\ UNCHANGED exceptRes

NextRes ==
  \/ \E reading \in BOOLEAN : ScopedOptional(reading)
  \/ ScopedOptionalEnd
  \/ \E reading \in BOOLEAN, rm \in BOOLEAN, exporting \in BOOLEAN,
        streamId \in ResourceIds :
       DoSerialiseViaResourceId(reading, rm, exporting, streamId)

(***************************************************************************)
(* SPIR-V modules and PatchFixedColShader                                  *)
(* A module is its sequence of 32-bit words: five header words (the id     *)
(* bound is word 3), then the instructions, each led by a word holding its *)
(* word count and opcode.  A float is the word of its bits.                *)
(***************************************************************************)
\* spv::WordCountShift and spv::OpCodeMask
WordCountShift == 16
OpCodeMask == 65535

\* the opcodes, decorations and storage classes the patchers look at
OpTypeVoid == 19
OpTypeInt == 21
OpTypeFloat == 22
OpTypeVector == 23
OpTypeRuntimeArray == 29
OpTypeStruct == 30
OpTypePointer == 32
OpTypeForwardPointer == 39
OpConstant == 43
OpFunction == 54
OpVariable == 59
OpDecorate == 71
OpMemberDecorate == 72
DecorationBufferBlock == 3
DecorationArrayStride == 6
DecorationBuiltIn == 11
DecorationBinding == 33
DecorationDescriptorSet == 34
DecorationOffset == 35
BuiltInVertexId == 5
StorageClassInput == 1
StorageClassUniform == 2

\* MakeSPIRVOp(op, WordCount): the shift keeps the low 16 bits of WordCount in
\* a 32-bit word
MakeSPIRVOp(op, WordCount) ==
  (op % (OpCodeMask + 1)) + (WordCount % Pow2(32 - WordCountShift)) * Pow2(WordCountShift)

\* spirv[it], counting from 0 as the code does
At(spirv, it) == spirv[it + 1]
\* spirv[it]>>spv::WordCountShift and spirv[it]&spv::OpCodeMask
WordCountOf(w) == w \div Pow2(WordCountShift)
OpcodeOf(w) == w % (OpCodeMask + 1)

\* the header of a module with the given id bound
Header(idBound) == <<119734787, 99, 0, idBound, 0>>

\* the bits of the float literals 1.1f, 2.2f, 3.3f, 4.4f and of 1.0f
Float1_1 == 1066192077
Float2_2 == 1074580685
Float3_3 == 1079194419
Float4_4 == 1082969293
Float1_0 == 1065353216
Sentinels == <<Float1_1, Float2_2, Float3_3, Float4_4>>

\* the chain written as four separate ifs: a value just written is looked at
\* again
PatchValueNoElse(v, col) ==
  LET a == IF v = Float1_1 THEN col[1] ELSE v
      b == IF a = Float2_2 THEN col[2] ELSE a
      c == IF b = Float3_3 THEN col[3] ELSE b
      d == IF c = Float4_4 THEN col[4] ELSE c
  IN  [value |-> d, err |-> \A s \in 1..4 : v # Sentinels[s]]

\* lines 1953-1957: the new value word of a constant, and whether RDCERR
\* ("Unexpected constant value") is logged
PatchValue(v, col) ==
  IF v = Float1_1 THEN [value |-> col[1], err |-> FALSE]
  ELSE IF v = Float2_2 THEN [value |-> col[2], err |-> FALSE]
  ELSE IF v = Float3_3 THEN [value |-> col[3], err |-> FALSE]
  ELSE IF v = Float4_4 THEN [value |-> col[4], err |-> FALSE]
  ELSE [value |-> v, err |-> TRUE]

\* lines 1945-1961: the walk over the instructions from word 5; errors counts
\* the RDCERR calls
RECURSIVE PatchConstants(_, _, _, _)
PatchConstants(spirv, it, col, errors) ==
  IF it >= Len(spirv) THEN [spirv |-> spirv, errors |-> errors]
  ELSE IF OpcodeOf(At(spirv, it)) = OpConstant
  THEN Bind(PatchValue(At(spirv, it + 3), col), LAMBDA p :
         Bind([spirv |-> [spirv EXCEPT ![it + 4] = p.value],
               errors |-> IF p.err THEN errors + 1 ELSE errors], LAMBDA r :
           PatchConstants(r.spirv, it + WordCountOf(At(spirv, it)), col, r.errors)))
  ELSE PatchConstants(spirv, it + WordCountOf(At(spirv, it)), col, errors)

\* the constant declarations of the embedded shader, one per value
RECURSIVE ConstantOps(_)
ConstantOps(values) ==
  IF values = <<>> THEN <<>>
  ELSE <<MakeSPIRVOp(OpConstant, 4), 2, 10 + Len(values), Head(values)>>
         \o ConstantOps(Tail(values))

\* a fragment shader writing a vector of the given float constants
FixedColModule(values) ==
  Header(20) \o <<MakeSPIRVOp(OpTypeVoid, 2), 1>>
             \o <<MakeSPIRVOp(OpTypeFloat, 3), 2, 32>>
             \o <<MakeSPIRVOp(OpTypeVector, 4), 3, 2, 4>>
             \o ConstantOps(values)
             \o <<MakeSPIRVOp(OpFunction, 5), 1, 4, 0, 5>>

\* what fixedcolfs_spv may hold: the shader the patcher was written for, and
\* shaders that drifted from it (a sentinel gone, replaced, repeated, or a
\* further constant)
FixedColShaders ==
  { FixedColModule(values) : values \in
      { <<Float1_1, Float2_2, Float3_3, Float4_4>>,
        <<Float4_4, Float3_3, Float2_2, Float1_1>>,
        <<Float1_1, Float2_2, Float3_3>>,
        <<Float1_1, Float2_2, Float3_3, Float1_0>>,
        <<Float1_1, Float1_1, Float2_2, Float3_3, Float4_4>>,
        <<Float1_1, Float2_2, Float3_3, Float4_4, Float1_0>> } }

\* float col[4] of the callers
Cols ==
  [1..4 -> {0, Float1_0}]
    \cup { <<Float2_2, Float1_0, 0, 0>>, <<Float2_2, Float3_3, Float4_4, Float1_1>> }

MaxPatches == 2

NoPatch ==
  [n |-> 0, col |-> <<0, 0, 0, 0>>, spirv |-> <<>>, errors |-> 0,
   mod |-> NullHandle, shad |-> NullHandle]

FcIdle ==
  /\ fixedcol = FixedColModule(Sentinels)
  /\ fcCall = NoPatch

InitFixedCol ==
  /\ fixedcol \in FixedColShaders
  /\ fcCall = NoPatch

\* PatchFixedColShader(mod, shad, col): patches a copy of the embedded shader
\* and creates the shader module and the shader from it
PatchFixedColShader(col) ==
  /\ fcCall.n < MaxPatches
  /\ fcCall' = Bind(PatchConstants(fixedcol, 5, col, 0), LAMBDA r :
                 [n |-> fcCall.n + 1, col |-> col, spirv |-> r.spirv,
                  errors |-> r.errors, mod |-> 2 * fcCall.n + 1,
                  shad |-> 2 * fcCall.n + 2])
  /\ UNCHANGED fixedcol
  /\ UNCHANGED exceptFixedCol

NextFixedCol == \E col \in Cols : PatchFixedColShader(col)


(***************************************************************************)
(* AddOutputDumping                                                        *)
(* d is the record of the locals of the call: modSpirv, idBound, the ids   *)
(* found or declared, and the two insertion offsets.  Outputs are numbered *)
(* from 1 here; output i is the code's outs[i-1].                          *)
(***************************************************************************)
\* the component types of an output signature element (eCompType_...)
CompTypes == {"UInt", "SInt", "Float", "Double"}

NoOut == [constID |-> 0, basetypeID |-> 0, uniformPtrID |-> 0]

\* lines 3070-3120: the locals before the first pass
DumpLocals(modSpirv, numOutputs) ==
  [modSpirv |-> modSpirv, idBound |-> At(modSpirv, 3),
   vertidxID |-> 0, sint32ID |-> 0, sint32PtrInID |-> 0, uint32ID |-> 0,
   halfID |-> 0, floatID |-> 0, doubleID |-> 0,
   outs |-> [i \in 1..numOutputs |-> NoOut],
   maxDescSetBind |-> 0, decorateOffset |-> 0, typeVarOffset |-> 0,
   vertStructID |-> 0, runtimeArrayID |-> 0, outputStructID |-> 0,
   outputStructPtrID |-> 0, outBufferVarID |-> 0]

\* a scan that remembers the last descriptor set it saw
RDCMAXLast(a, b) == b

RDCMAX(a, b) == IF a > b THEN a ELSE b

\* the scalar type id for a component type (0 when not found)
BaseID(d, compType) ==
  CASE compType = "UInt" -> d.uint32ID
    [] compType = "SInt" -> d.sint32ID
    [] compType = "Float" -> d.floatID
    [] compType = "Double" -> d.doubleID
    [] OTHER -> 0

\* lines 3128-3175: the ids of gl_VertexID and of the scalar and pointer types
ScanIds(d, spirv, it) ==
  LET opcode == OpcodeOf(At(spirv, it))
  IN  [d EXCEPT
        !.vertidxID =
          IF opcode = OpDecorate /\ At(spirv, it + 2) = DecorationBuiltIn
               /\ At(spirv, it + 3) = BuiltInVertexId
          THEN At(spirv, it + 1) ELSE @,
        !.sint32ID =
          IF opcode = OpTypeInt /\ At(spirv, it + 2) = 32 /\ At(spirv, it + 3) = 1
          THEN At(spirv, it + 1) ELSE @,
        !.uint32ID =
          IF opcode = OpTypeInt /\ At(spirv, it + 2) = 32 /\ At(spirv, it + 3) = 0
          THEN At(spirv, it + 1) ELSE @,
        !.halfID =
          IF opcode = OpTypeFloat /\ At(spirv, it + 2) = 16
          THEN At(spirv, it + 1) ELSE @,
        !.floatID =
          IF opcode = OpTypeFloat /\ At(spirv, it + 2) = 32
          THEN At(spirv, it + 1) ELSE @,
        !.doubleID =
          IF opcode = OpTypeFloat /\ At(spirv, it + 2) = 64
          THEN At(spirv, it + 1) ELSE @,
        !.sint32PtrInID =
          IF opcode = OpTypePointer /\ At(spirv, it + 2) = StorageClassInput
               /\ At(spirv, it + 3) = d.sint32ID
          THEN At(spirv, it + 1) ELSE @]

\* lines 3179-3216: what the instruction at it tells about output i
ScanOutput(d, spirv, it, sig, i) ==
  LET opcode == OpcodeOf(At(spirv, it))
      baseID == BaseID(d, sig.compType)
      constID ==
        IF opcode = OpConstant /\ At(spirv, it + 1) = d.uint32ID
             /\ At(spirv, it + 3) = i - 1
        THEN At(spirv, it + 2) ELSE d.outs[i].constID
      basetypeID ==
        IF sig.compCount > 1 /\ opcode = OpTypeVector /\ baseID # 0
             /\ At(spirv, it + 2) = baseID /\ At(spirv, it + 3) = sig.compCount
        THEN At(spirv, it + 1) ELSE d.outs[i].basetypeID
      uniformPtrID ==
        IF basetypeID # 0 /\ opcode = OpTypePointer
             /\ At(spirv, it + 2) = StorageClassUniform
             /\ At(spirv, it + 3) = basetypeID
        THEN At(spirv, it + 1) ELSE d.outs[i].uniformPtrID
  IN  [constID |-> constID, basetypeID |-> basetypeID, uniformPtrID |-> uniformPtrID]

\* lines 3125-3224: one instruction of the first pass
ScanStep(d, spirv, it, refl) ==
  Bind(ScanIds(d, spirv, it), LAMBDA e :
    [e EXCEPT
      !.outs = [i \in 1..Len(refl) |-> ScanOutput(e, spirv, it, refl[i], i)],
      !.maxDescSetBind =
        IF OpcodeOf(At(spirv, it)) = OpDecorate
             /\ At(spirv, it + 2) = DecorationDescriptorSet
        THEN RDCMAX(@, At(spirv, it + 3)) ELSE @,
      !.decorateOffset =
        IF @ = 0 /\ OpcodeOf(At(spirv, it)) >= OpTypeVoid
             /\ OpcodeOf(At(spirv, it)) <= OpTypeForwardPointer
        THEN it ELSE @])

\* lines 3122-3234: the first pass, up to the first OpFunction
RECURSIVE ScanModule(_, _, _, _)
ScanModule(d, spirv, it, refl) ==
  IF it >= Len(spirv) THEN d
  ELSE Bind(ScanStep(d, spirv, it, refl), LAMBDA e :
         IF OpcodeOf(At(spirv, it)) = OpFunction
         THEN [e EXCEPT !.typeVarOffset = it]
         ELSE ScanModule(e, spirv, it + WordCountOf(At(spirv, it)), refl))

\* lines 3236-3255: the base type of the outputs that are no vectors
HandleNonVectors(d, refl) ==
  [d EXCEPT !.outs =
    [i \in 1..Len(refl) |->
      IF refl[i].compCount = 1
      THEN [d.outs[i] EXCEPT !.basetypeID = BaseID(d, refl[i].compType)]
      ELSE d.outs[i]]]

\* modSpirv.insert(modSpirv.begin()+offset, ...)
Insert(seq, offset, words) ==
  SubSeq(seq, 1, offset) \o words \o SubSeq(seq, offset + 1, Len(seq))

\* an allocation that hands out the same id again
AllocSame(d) == d

\* idBound++
Alloc(d) == [d EXCEPT !.idBound = @ + 1]

\* an insertion that leaves the offset where it was
InsertTypeVarStale(d, words) ==
  [d EXCEPT !.modSpirv = Insert(@, d.typeVarOffset, words)]

\* insert at the end of the types/variables section and move its offset
InsertTypeVar(d, words) ==
  [d EXCEPT !.modSpirv = Insert(@, d.typeVarOffset, words),
            !.typeVarOffset = @ + Len(words)]

\* insert at the end of the decorations and move both offsets
InsertDecorations(d, words) ==
  [d EXCEPT !.modSpirv = Insert(@, d.decorateOffset, words),
            !.typeVarOffset = @ + Len(words),
            !.decorateOffset = @ + Len(words)]

\* lines 3262-3278
DeclareSInt32(d) ==
  IF d.sint32ID # 0 THEN d
  ELSE Bind(Alloc([d EXCEPT !.sint32ID = d.idBound]), LAMBDA e :
         InsertTypeVar(e, <<MakeSPIRVOp(OpTypeInt, 4), e.sint32ID, 32, 1>>))

\* lines 3281-3298
DeclareSInt32PtrIn(d) ==
  IF d.sint32PtrInID # 0 THEN d
  ELSE Bind(Alloc([d EXCEPT !.sint32PtrInID = d.idBound]), LAMBDA e :
         InsertTypeVar(e, <<MakeSPIRVOp(OpTypePointer, 4), e.sint32PtrInID,
                            StorageClassInput, e.sint32ID>>))

\* lines 3257-3330: declare "in int gl_VertexID" when the module has none
DeclareVertexIndex(d) ==
  IF d.vertidxID # 0 THEN d
  ELSE Bind(DeclareSInt32(d), LAMBDA a :
       Bind(DeclareSInt32PtrIn(a), LAMBDA b :
       Bind(Alloc([b EXCEPT !.vertidxID = b.idBound]), LAMBDA c :
       Bind(InsertTypeVar(c, <<MakeSPIRVOp(OpVariable, 4), c.sint32PtrInID,
                               c.vertidxID, StorageClassInput>>), LAMBDA e :
         InsertDecorations(e, <<MakeSPIRVOp(OpDecorate, 4), e.vertidxID,
                                DecorationBuiltIn, BuiltInVertexId>>)))))

\* a declaration of the unsigned type whether the module has one or not
DeclareUInt32Always(d) ==
  Bind(Alloc([d EXCEPT !.uint32ID = d.idBound]), LAMBDA e :
    InsertTypeVar(e, <<MakeSPIRVOp(OpTypeInt, 4), e.uint32ID, 32, 0>>))

\* lines 3333-3349
DeclareUInt32(d) ==
  IF d.uint32ID # 0 THEN d
  ELSE Bind(Alloc([d EXCEPT !.uint32ID = d.idBound]), LAMBDA e :
         InsertTypeVar(e, <<MakeSPIRVOp(OpTypeInt, 4), e.uint32ID, 32, 0>>))

\* lines 3352-3371: the constants i-1 that are missing, from output i on
RECURSIVE DeclareConstants(_, _)
DeclareConstants(d, i) ==
  IF i > Len(d.outs) THEN d
  ELSE IF d.outs[i].constID # 0 THEN DeclareConstants(d, i + 1)
  ELSE Bind(Alloc([d EXCEPT !.outs[i].constID = d.idBound]), LAMBDA e :
       Bind(InsertTypeVar(e, <<MakeSPIRVOp(OpConstant, 4), e.uint32ID,
                               e.outs[i].constID, i - 1>>), LAMBDA g :
         DeclareConstants(g, i + 1)))

\* lines 3397-3404: later outputs of the same type share the new pointer type
ShareUniformPtr(d, i) ==
  [d EXCEPT !.outs =
    [j \in 1..Len(d.outs) |->
      IF j > i /\ d.outs[j].basetypeID = d.outs[i].basetypeID
      THEN [d.outs[j] EXCEPT !.uniformPtrID = d.outs[i].uniformPtrID]
      ELSE d.outs[j]]]

\* lines 3377-3406: the uniform pointer types that are missing
RECURSIVE DeclareUniformPtrs(_, _)
DeclareUniformPtrs(d, i) ==
  IF i > Len(d.outs) THEN d
  ELSE IF d.outs[i].uniformPtrID # 0 THEN DeclareUniformPtrs(d, i + 1)
  ELSE Bind(Alloc([d EXCEPT !.outs[i].uniformPtrID = d.idBound]), LAMBDA e :
       Bind(InsertTypeVar(e, <<MakeSPIRVOp(OpTypePointer, 4), e.outs[i].uniformPtrID,
                               StorageClassUniform, e.outs[i].basetypeID>>), LAMBDA g :
       Bind(ShareUniformPtr(g, i), LAMBDA h :
         DeclareUniformPtrs(h, i + 1))))

\* every component four bytes wide
ElemSizeFour(compType) == 4

\* lines 3502-3510: the byte width of a component
ElemSize(compType) ==
  IF compType = "Double" THEN 8
  ELSE IF compType \in {"SInt", "UInt", "Float"} THEN 4
  ELSE 0

\* lines 3493-3513: memberOffset when the loop reaches output i
RECURSIVE MemberOffset(_, _)
MemberOffset(refl, i) ==
  IF i = 1 THEN 0
  ELSE MemberOffset(refl, i - 1)
         + ElemSize(refl[i - 1].compType) * refl[i - 1].compCount

\* lines 3494-3500: the offset decorations of the members from output i on
RECURSIVE MemberDecorations(_, _, _)
MemberDecorations(refl, vertStructID, i) ==
  IF i > Len(refl) THEN <<>>
  ELSE <<MakeSPIRVOp(OpMemberDecorate, 5), vertStructID, i - 1, DecorationOffset,
         MemberOffset(refl, i)>> \o MemberDecorations(refl, vertStructID, i + 1)

\* lines 3487-3543: all the decorations of the output buffer
Decorations(d, refl) ==
  MemberDecorations(refl, d.vertStructID, 1)
    \o <<MakeSPIRVOp(OpMemberDecorate, 5), d.outputStructID, 0, DecorationOffset, 0>>
    \o <<MakeSPIRVOp(OpDecorate, 4), d.runtimeArrayID, DecorationArrayStride,
         MemberOffset(refl, Len(refl) + 1)>>
    \o <<MakeSPIRVOp(OpDecorate, 3), d.outputStructID, DecorationBufferBlock>>
    \o <<MakeSPIRVOp(OpDecorate, 4), d.outBufferVarID, DecorationDescriptorSet,
         d.maxDescSetBind + 1>>
    \o <<MakeSPIRVOp(OpDecorate, 4), d.outBufferVarID, DecorationBinding, 0>>

\* lines 3408-3551: the struct of the outputs, the runtime array of it, the
\* block struct, the pointer to it, the variable, and their decorations
DeclareOutputBuffer(d, refl) ==
  Bind(Alloc([d EXCEPT !.vertStructID = d.idBound]), LAMBDA a :
  Bind(InsertTypeVar(a, <<MakeSPIRVOp(OpTypeStruct, 2 + Len(refl)), a.vertStructID>>
                          \o [i \in 1..Len(refl) |-> a.outs[i].basetypeID]), LAMBDA b :
  Bind(Alloc([b EXCEPT !.runtimeArrayID = b.idBound]), LAMBDA c :
  Bind(InsertTypeVar(c, <<MakeSPIRVOp(OpTypeRuntimeArray, 3), c.runtimeArrayID,
                          c.vertStructID>>), LAMBDA e :
  Bind(Alloc([e EXCEPT !.outputStructID = e.idBound]), LAMBDA f :
  Bind(InsertTypeVar(f, <<MakeSPIRVOp(OpTypeStruct, 3), f.outputStructID,
                          f.runtimeArrayID>>), LAMBDA g :
  Bind(Alloc([g EXCEPT !.outputStructPtrID = g.idBound]), LAMBDA h :
  Bind(InsertTypeVar(h, <<MakeSPIRVOp(OpTypePointer, 4), h.outputStructPtrID,
                          StorageClassUniform, h.outputStructID>>), LAMBDA k :
  Bind(Alloc([k EXCEPT !.outBufferVarID = k.idBound]), LAMBDA l :
  Bind(InsertTypeVar(l, <<MakeSPIRVOp(OpVariable, 4), l.outputStructPtrID,
                          l.outBufferVarID, StorageClassUniform>>), LAMBDA m :
    InsertDecorations(m, Decorations(m, refl))))))))))))

\* a header that keeps the id bound it had
PatchIdBoundKept(d) == d

\* lines 3553-3558: the new id bound goes into the header
PatchIdBound(d) == [d EXCEPT !.modSpirv[4] = d.idBound]

\* the whole of AddOutputDumping(refl, modSpirv), as the locals at its end
OutputDumped(refl, modSpirv) ==
  Bind(ScanModule(DumpLocals(modSpirv, Len(refl)), modSpirv, 5, refl), LAMBDA a :
  Bind(HandleNonVectors(a, refl), LAMBDA b :
  Bind(DeclareVertexIndex(b), LAMBDA c :
  Bind(DeclareUInt32(c), LAMBDA e :
  Bind(DeclareConstants(e, 1), LAMBDA f :
  Bind(DeclareUniformPtrs(f, 1), LAMBDA g :
  Bind(DeclareOutputBuffer(g, refl), LAMBDA h :
    PatchIdBound(h))))))))

\* ---- the vertex shaders handed to it ----
Sig(compType, compCount) == [compType |-> compType, compCount |-> compCount]

\* refl.OutputSig of the shaders: vectors and scalars, types repeated, a
\* double first
OutputSigs ==
  { <<Sig("Float", 4)>>,
    <<Sig("Float", 4), Sig("Float", 4)>>,
    <<Sig("Float", 4), Sig("Float", 1)>>,
    <<Sig("Double", 2), Sig("Float", 4)>>,
    <<Sig("Float", 4), Sig("UInt", 1), Sig("Float", 1)>>,
    <<Sig("SInt", 1), Sig("Float", 4)>> }

Uses(refl, compType) == \E i \in 1..Len(refl) : refl[i].compType = compType

\* the descriptor sets the shader's resources are decorated with, in order
DescSetLists == { <<>>, <<0>>, <<2, 0>>, <<0, 1>> }

RECURSIVE SetDecorations(_)
SetDecorations(sets) ==
  IF sets = <<>> THEN <<>>
  ELSE <<MakeSPIRVOp(OpDecorate, 4), 13 + Len(sets), DecorationDescriptorSet,
         Head(sets)>> \o SetDecorations(Tail(sets))

Opt(present, words) == IF present THEN words ELSE <<>>

\* what a module may already declare of the things the patch needs
DumpOptions ==
  { o \in [vertexId : BOOLEAN, sint : BOOLEAN, ptrIn : BOOLEAN, uint : BOOLEAN,
           consts : 0..2, ptrUni : BOOLEAN, ptrUniScalar : BOOLEAN,
           sets : DescSetLists] :
      /\ o.vertexId => o.ptrIn
      /\ o.ptrIn => o.sint
      /\ o.consts > 0 => o.uint }

\* a module declares the types of its own outputs
Declares(o, refl) ==
  /\ Uses(refl, "UInt") => o.uint
  /\ Uses(refl, "SInt") => o.sint

\* a vertex shader module: decorations, then types, constants and variables,
\* then the function
DumpModule(o, refl) ==
  Header(20)
    \o Opt(o.vertexId, <<MakeSPIRVOp(OpDecorate, 4), 10, DecorationBuiltIn, BuiltInVertexId>>)
    \o SetDecorations(o.sets)
    \o <<MakeSPIRVOp(OpTypeVoid, 2), 1>>
    \o <<MakeSPIRVOp(OpTypeFloat, 3), 3, 32>>
    \o <<MakeSPIRVOp(OpTypeVector, 4), 4, 3, 4>>
    \o Opt(Uses(refl, "Double"),
           <<MakeSPIRVOp(OpTypeFloat, 3), 7, 64, MakeSPIRVOp(OpTypeVector, 4), 8, 7, 2>>)
    \o Opt(o.sint, <<MakeSPIRVOp(OpTypeInt, 4), 5, 32, 1>>)
    \o Opt(o.uint, <<MakeSPIRVOp(OpTypeInt, 4), 6, 32, 0>>)
    \o Opt(o.ptrIn, <<MakeSPIRVOp(OpTypePointer, 4), 9, StorageClassInput, 5>>)
    \o Opt(o.vertexId, <<MakeSPIRVOp(OpVariable, 4), 9, 10, StorageClassInput>>)
    \o Opt(o.consts >= 1, <<MakeSPIRVOp(OpConstant, 4), 6, 11, 0>>)
    \o Opt(o.consts >= 2, <<MakeSPIRVOp(OpConstant, 4), 6, 12, 1>>)
    \o Opt(o.ptrUni, <<MakeSPIRVOp(OpTypePointer, 4), 13, StorageClassUniform, 4>>)
    \o Opt(o.ptrUniScalar, <<MakeSPIRVOp(OpTypePointer, 4), 17, StorageClassUniform, 3>>)
    \o <<MakeSPIRVOp(OpFunction, 5), 1, 16, 0, 2>>

DumpInputs ==
  { <<refl, DumpModule(o, refl)>> :
      <<refl, o>> \in { p \in OutputSigs \X DumpOptions : Declares(p[2], p[1]) } }

MaxDumps == 1

NoDump ==
  [n |-> 0, refl |-> <<>>, input |-> <<>>, output |-> <<>>, vertStructID |-> 0,
   runtimeArrayID |-> 0, outBufferVarID |-> 0]

DumpIdle == dump = NoDump

\* the shader of the pipeline whose vertex output is fetched: its reflection
\* and its SPIR-V, which every call copies afresh
InitDump ==
  dump \in { [NoDump EXCEPT !.refl = p[1], !.input = p[2]] : p \in DumpInputs }

\* AddOutputDumping(refl, modSpirv) on a copy of the shader's SPIR-V
AddOutputDumping ==
  /\ dump.n < MaxDumps
  /\ dump' = Bind(OutputDumped(dump.refl, dump.input), LAMBDA d :
               [dump EXCEPT !.n = @ + 1, !.output = d.modSpirv,
                            !.vertStructID = d.vertStructID,
                            !.runtimeArrayID = d.runtimeArrayID,
                            !.outBufferVarID = d.outBufferVarID])
  /\ UNCHANGED exceptDump

NextDump == AddOutputDumping


(***************************************************************************)
(* Structures whose members depend on the version of the capture:          *)
(* DoSerialise of DescriptorSetSlot, ImageRegionState, ImageLayouts and    *)
(* VkPhysicalDeviceVulkanMemoryModelFeatures                               *)
(***************************************************************************)
\* ser.VersionAtLeast(v)
VersionAtLeast(version, v) == version >= v

\* the versions of a capture around 0xD, 0xF and 0x12
Versions == {12, 13, 14, 15, 17, 18}

\* DoSerialise(ser, DescriptorSetSlot &el)
DescriptorSetSlotMembers(version) ==
  <<"bufferInfo", "imageInfo", "texelBufferView">>
    \o (IF VersionAtLeast(version, 18) THEN <<"inlineOffset">> ELSE <<>>)

\* the new member put among the old ones, and two of them swapped
ImageRegionStateMembersReordered(version) ==
  IF VersionAtLeast(version, 13)
  THEN <<"subresourceRange", "dstQueueFamilyIndex", "newLayout", "oldLayout">>
  ELSE <<"subresourceRange", "oldLayout", "newLayout">>

\* DoSerialise(ser, ImageRegionState &el)
ImageRegionStateMembers(version) ==
  (IF VersionAtLeast(version, 13) THEN <<"dstQueueFamilyIndex">> ELSE <<>>)
    \o <<"subresourceRange", "oldLayout", "newLayout">>

\* DoSerialise(ser, ImageLayouts &el)
ImageLayoutsMembers(version) ==
  (IF VersionAtLeast(version, 13) THEN <<"queueFamilyIndex">> ELSE <<>>)
    \o <<"subresourceStates", "imageInfo">>

\* DoSerialise(ser, VkPhysicalDeviceVulkanMemoryModelFeatures &el)
MemoryModelFeaturesMembers(version) ==
  <<"sType", "pNext", "vulkanMemoryModel", "vulkanMemoryModelDeviceScope">>
    \o (IF VersionAtLeast(version, 15)
        THEN <<"vulkanMemoryModelAvailabilityVisibilityChains">> ELSE <<>>)

Structures ==
  {"DescriptorSetSlot", "ImageRegionState", "ImageLayouts",
   "VkPhysicalDeviceVulkanMemoryModelFeatures"}

\* the members DoSerialise serialises, in order
Members(structure, version) ==
  CASE structure = "DescriptorSetSlot" -> DescriptorSetSlotMembers(version)
    [] structure = "ImageRegionState" -> ImageRegionStateMembers(version)
    [] structure = "ImageLayouts" -> ImageLayoutsMembers(version)
    [] structure = "VkPhysicalDeviceVulkanMemoryModelFeatures" ->
         MemoryModelFeaturesMembers(version)

\* the member of a structure that a later version added, and that version
AddedMember(structure) ==
  CASE structure = "DescriptorSetSlot" -> "inlineOffset"
    [] structure = "ImageRegionState" -> "dstQueueFamilyIndex"
    [] structure = "ImageLayouts" -> "queueFamilyIndex"
    [] structure = "VkPhysicalDeviceVulkanMemoryModelFeatures" ->
         "vulkanMemoryModelAvailabilityVisibilityChains"

AddedIn(structure) ==
  CASE structure = "DescriptorSetSlot" -> 18
    [] structure = "VkPhysicalDeviceVulkanMemoryModelFeatures" -> 15
    [] OTHER -> 13

VK_FALSE == 0

\* SERIALISE_MEMBER(member): a reader leaves the value of the stream in the
\* member, a writer leaves the member as it is
SerialiseMember(reading, before, wire) == IF reading THEN wire ELSE before

\* el.inlineOffset after DoSerialise of a DescriptorSetSlot: the serialised
\* value, or 0 when reading a capture older than 0x12
InlineOffsetAfter(version, reading, value) ==
  IF ~VersionAtLeast(version, 18) /\ reading THEN 0 ELSE value

\* el.vulkanMemoryModelAvailabilityVisibilityChains after DoSerialise: the
\* serialised value, or VK_FALSE when reading a capture older than 0xF
ChainsAfter(version, reading, value) ==
  IF ~VersionAtLeast(version, 15) /\ reading THEN VK_FALSE ELSE value

\* the queue family index of an ImageRegionState or of an ImageLayouts after
\* DoSerialise: serialised from 0xD on, and not touched before
QueueFamilyIndexAfter(version, reading, before, wire) ==
  IF VersionAtLeast(version, 13) THEN SerialiseMember(reading, before, wire) ELSE before

\* the added member of el after DoSerialise
AddedMemberAfter(structure, version, reading, before, wire) ==
  CASE structure = "DescriptorSetSlot" ->
         InlineOffsetAfter(version, reading,
           IF VersionAtLeast(version, 18) THEN SerialiseMember(reading, before, wire)
           ELSE before)
    [] structure = "VkPhysicalDeviceVulkanMemoryModelFeatures" ->
         ChainsAfter(version, reading,
           IF VersionAtLeast(version, 15) THEN SerialiseMember(reading, before, wire)
           ELSE before)
    [] OTHER -> QueueFamilyIndexAfter(version, reading, before, wire)

\* what the added member of el holds before the call
MemberValues == {0, 1}

MaxReads == 2

VerIdle == verReads = {}

InitVer == verReads = {}

\* DoSerialise(ser, el) for one of the structures with a serialiser of the
\* given version, on an el whose added member holds before; a stream that
\* has the member holds 1 for it
DoSerialise(structure, version, reading, before) ==
  /\ Cardinality(verReads) < MaxReads
  /\ verReads' = verReads \cup
       { [structure |-> structure, version |-> version, reading |-> reading,
          members |-> Members(structure, version),
          before |-> before,
          after |-> AddedMemberAfter(structure, version, reading, before, 1)] }
  /\ UNCHANGED exceptVer

NextVer ==
  \E structure \in Structures, version \in Versions, reading \in BOOLEAN,
     before \in MemberValues :
    DoSerialise(structure, version, reading, before)


(***************************************************************************)
(* MakeGraphicsPipelineInfo: the viewport state                            *)
(* The description points at two function-static arrays, views[32] and     *)
(* scissors[32], that the function fills with memcpy.  The arrays are      *)
(* modelled as their 32-bit words: a VkViewport is six floats (originX,    *)
(* originY, width, height, minDepth, maxDepth), a VkRect2D is four         *)
(* integers (offset.x, offset.y, extent.width, extent.height).  A float    *)
(* word is its IEEE-754 bit pattern.                                       *)
(***************************************************************************)
ArrayCount == 32
ViewportWords == 6
RectWords == 4

Float0_0 == 0
Float2_0 == 1073741824

\* the words of a list of structures, in memory order
RECURSIVE WordsOf(_)
WordsOf(list) == IF list = << >> THEN << >> ELSE Head(list) \o WordsOf(Tail(list))

\* memcpy(dst, src, n words): the first n words of dst become those of src
Memcpy(dst, src, n) ==
  [i \in 1..Len(dst) |-> IF i <= n THEN src[i] ELSE dst[i]]

\* "static VkViewport views[32] = {0}" and "static VkRect2D scissors[32] = {0}"
ZeroWords(n) == [i \in 1..n |-> 0]

\* the captured pipelines: one or two viewports, one or two scissors
PipeViewports ==
  { <<Float0_0, Float0_0, Float1_0, Float1_0, Float0_0, Float1_0>>,
    <<Float1_0, Float1_0, Float2_0, Float2_0, Float0_0, Float1_0>> }
PipeScissors == { <<0, 0, 1, 1>>, <<1, 2, 3, 4>> }
ListsOf(S) == { <<a>> : a \in S } \cup { <<a, b>> : a \in S, b \in S }
PipeInfos == [viewports : ListsOf(PipeViewports), scissors : ListsOf(PipeScissors)]

MaxPipeInfos == 2

NoPipeCall == [n |-> 0, pipeInfo |-> [viewports |-> << >>, scissors |-> << >>]]

PipeIdle ==
  /\ views = ZeroWords(ArrayCount * ViewportWords)
  /\ scissorRects = ZeroWords(ArrayCount * RectWords)
  /\ vp = [viewportCount |-> 0, scissorCount |-> 0]
  /\ pipeCall = NoPipeCall

InitPipe == PipeIdle

\* the viewport part of MakeGraphicsPipelineInfo: both memcpy calls write
\* into views; vp.pViewports is views and vp.pScissors is scissors
MakeGraphicsPipelineInfo(pipeInfo) ==
  /\ pipeCall.n < MaxPipeInfos
  /\ views' = Memcpy(Memcpy(views, WordsOf(pipeInfo.viewports),
                            Len(pipeInfo.viewports) * ViewportWords),
                     WordsOf(pipeInfo.scissors),
                     Len(pipeInfo.scissors) * RectWords)
  /\ scissorRects' = scissorRects
  /\ vp' = [viewportCount |-> Len(pipeInfo.viewports),
            scissorCount |-> Len(pipeInfo.scissors)]
  /\ pipeCall' = [n |-> pipeCall.n + 1, pipeInfo |-> pipeInfo]
  /\ UNCHANGED exceptPipe

NextPipe == \E pipeInfo \in PipeInfos : MakeGraphicsPipelineInfo(pipeInfo)


(***************************************************************************)
(* DeserialiseNext on any chain                                            *)
(* The chains handed to it: up to MaxNextChain links of any tag, each link *)
(* an allocation of its own.                                               *)
(***************************************************************************)
MaxNextChain == 3

NextTags == {TagProtectedMemory, TagDrawParameters, TagFrameTokenGGP, TagMaxEnum, TagUnknown}

NextChains ==
  UNION { { [k \in 1..n |-> [sType |-> tags[k], val |-> 1, id |-> <<"struct", k>>]] :
              tags \in [1..n -> NextTags] } : n \in 0..MaxNextChain }

NoNextCall == [n |-> 0, rel |-> Released]

NextIdle ==
  /\ pNextIn = << >>
  /\ nextRel = NoNextCall

InitNext ==
  /\ pNextIn \in NextChains
  /\ nextRel = NoNextCall

\* DeserialiseNext(pNext) by a build with the supported and unsupported tags
\* of this one
DeserialiseNextCall ==
  /\ nextRel.n = 0
  /\ nextRel' = [n |-> 1, rel |-> DeserialiseNext(pNextIn, Supported, Unsupported)]
  /\ UNCHANGED pNextIn
  /\ UNCHANGED exceptNext

NextDeserialiseNext == DeserialiseNextCall


(***************************************************************************)
(* Specifications                                                          *)
(***************************************************************************)
vars ==
  <<ringVars, meshVars, serVars, ovVars, resVars, fcVars, dumpVars, verVars, pipeVars,
    nextVars>>

NextRing ==
  \E bindoffset \in BOOLEAN, usedsize \in 0..(ubo.totalsize + 1) :
    Map(bindoffset, usedsize)

NextMesh ==
  \E m \in MeshInputs : CacheMeshDisplayPipelines(m[1], m[2])

InitSpecRing ==
  InitRing /\ MeshIdle /\ SerIdle /\ OvIdle /\ ResIdle /\ FcIdle /\ DumpIdle /\ VerIdle /\ PipeIdle
    /\ NextIdle
SpecRing == InitSpecRing /\ [][NextRing]_vars

InitSpecMesh ==
  InitMesh /\ RingIdle /\ SerIdle /\ OvIdle /\ ResIdle /\ FcIdle /\ DumpIdle /\ VerIdle /\ PipeIdle
    /\ NextIdle
SpecMesh == InitSpecMesh /\ [][NextMesh]_vars

InitSpecSer ==
  InitSer /\ RingIdle /\ MeshIdle /\ OvIdle /\ ResIdle /\ FcIdle /\ DumpIdle /\ VerIdle /\ PipeIdle
    /\ NextIdle
SpecSer == InitSpecSer /\ [][NextSer]_vars

InitSpecOverlay ==
  InitOverlay /\ RingIdle /\ MeshIdle /\ SerIdle /\ ResIdle /\ FcIdle /\ DumpIdle /\ VerIdle /\ PipeIdle
    /\ NextIdle
SpecOverlay == InitSpecOverlay /\ [][NextOverlay]_vars

InitSpecRes ==
  InitRes /\ RingIdle /\ MeshIdle /\ SerIdle /\ OvIdle /\ FcIdle /\ DumpIdle /\ VerIdle /\ PipeIdle
    /\ NextIdle
SpecRes == InitSpecRes /\ [][NextRes]_vars

InitSpecFixedCol ==
  InitFixedCol /\ RingIdle /\ MeshIdle /\ SerIdle /\ OvIdle /\ ResIdle /\ DumpIdle /\ VerIdle /\ PipeIdle
    /\ NextIdle
SpecFixedCol == InitSpecFixedCol /\ [][NextFixedCol]_vars

InitSpecDump ==
  InitDump /\ RingIdle /\ MeshIdle /\ SerIdle /\ OvIdle /\ ResIdle /\ FcIdle /\ VerIdle /\ PipeIdle
    /\ NextIdle
SpecDump == InitSpecDump /\ [][NextDump]_vars

InitSpecVer ==
  InitVer /\ RingIdle /\ MeshIdle /\ SerIdle /\ OvIdle /\ ResIdle /\ FcIdle /\ DumpIdle /\ PipeIdle
    /\ NextIdle
SpecVer == InitSpecVer /\ [][NextVer]_vars

InitSpecPipe ==
  InitPipe /\ RingIdle /\ MeshIdle /\ SerIdle /\ OvIdle /\ ResIdle /\ FcIdle /\ DumpIdle /\ VerIdle
    /\ NextIdle
SpecPipe == InitSpecPipe /\ [][NextPipe]_vars

InitSpecNext ==
  InitNext /\ RingIdle /\ MeshIdle /\ SerIdle /\ OvIdle /\ ResIdle /\ FcIdle /\ DumpIdle /\ VerIdle
    /\ PipeIdle
SpecNext == InitSpecNext /\ [][NextDeserialiseNext]_vars

(***************************************************************************)
(* Properties                                                              *)
(***************************************************************************)

\* C3: two lookups whose signatures differ (index width, topology, vertex
\* formats, primary stride, secondary stride with a secondary buffer) are
\* never served from the same cache entry.
C3_DifferingSignatureNeverCollides ==
  \A s1 \in DOMAIN served : \A s2 \in DOMAIN served :
    s1 # s2 => served[s1] # served[s2]

\* C4: once a lookup has built the pipelines of a signature, every later
\* lookup of that signature returns the same handles and creates no
\* pipeline, and no entry of the cache is ever changed or removed.
C4_BuiltOncePerSignature ==
  [][ /\ (lastLookup'.n # lastLookup.n /\ lastLookup'.sig \in DOMAIN built)
         => /\ lastLookup'.pipes = built[lastLookup'.sig]
            /\ createCalls' = createCalls
      /\ \A k \in DOMAIN m_CachedMeshPipelines :
            /\ k \in DOMAIN m_CachedMeshPipelines'
            /\ m_CachedMeshPipelines'[k] = m_CachedMeshPipelines[k] ]_vars

\* a signature is looked up again after a lookup of another signature
C4_Witness ==
  /\ lastLookup.n = MaxLookups
  /\ lastLookup.hit
  /\ lastLookup.sig \in DOMAIN built
  /\ lastLookup.pipes = built[lastLookup.sig]
  /\ Cardinality(DOMAIN built) >= 2

\* C5: every offset Map returns for a reservation no larger than the buffer
\* is at least 0, ends inside the buffer and is a multiple of the alignment.
C5_MapInsideAndAligned ==
  (lastMap.n > 0 /\ lastMap.size <= ubo.totalsize)
    => /\ 0 <= lastMap.offset
       /\ lastMap.offset + lastMap.size <= ubo.totalsize
       /\ lastMap.offset % ubo.align = 0

\* a reservation behind the start of a ring with an alignment above 1
C5_Witness ==
  /\ lastMap.n > 1
  /\ lastMap.offset > 0
  /\ lastMap.size <= ubo.totalsize
  /\ ubo.align > 1

\* ---- chains ----
AllIn(chain, tags) == \A i \in 1..Len(chain) : chain[i].sType \in tags

\* the links of a chain a writer with the PNEXT_STRUCT cases sup writes
WrittenLinks(chain, sup) == SelectSeq(chain, LAMBDA l : l.sType \in sup)

\* the sTypes of the links of a chain a writer drops
DroppedTags(chain, sup) ==
  LET d == SelectSeq(chain, LAMBDA l : l.sType \notin sup)
  IN  [i \in 1..Len(d) |-> d[i].sType]

RECURSIVE LeadingIn(_, _)
\* the number of leading links of a chain with a tag in tags
LeadingIn(chain, tags) ==
  IF chain = << >> \/ Head(chain).sType \notin tags THEN 0
  ELSE 1 + LeadingIn(Tail(chain), tags)

SameLinks(decoded, chain) ==
  /\ Len(decoded) = Len(chain)
  /\ \A i \in 1..Len(chain) :
        /\ decoded[i].sType = chain[i].sType
        /\ decoded[i].val = chain[i].val

HasBeenRead == serPhase \in {"read", "released"}

\* the first tag of the stream this build does not handle is in the chain
\* of the VkDeviceCreateInfo itself
StopsInTopChain ==
  LeadingIn(WrittenLinks(pIn.chain, ForeignSupported), Supported)
    < Len(WrittenLinks(pIn.chain, ForeignSupported))

\* C6: when the reader meets a chain tag that is PNEXT_UNSUPPORTED in this
\* build, the reader is errored, no word behind the tag is read, the pNext
\* pointer being read stays NULL and the parent's remaining fields are not
\* decoded.
C6_UnsupportedTagIsFatalOnRead ==
  (HasBeenRead /\ rd.r.stopKind = "unsupported")
    => /\ rd.r.err
       /\ rd.r.pos = rd.r.stopAt
       /\ stream[rd.r.stopAt - 1] \in Unsupported
       /\ StopsInTopChain
            => /\ Len(rd.el.chain)
                    = LeadingIn(WrittenLinks(pIn.chain, ForeignSupported), Supported)
               /\ rd.el.pQueueCreateInfos = << >>
               /\ rd.el.ppEnabledExtensionNames = << >>
               /\ rd.el.pEnabledFeatures = << >>

\* an unsupported tag behind a supported link, in a stream that goes on
\* with queue infos and features
C6_Witness ==
  /\ serPhase = "read"
  /\ rd.r.stopKind = "unsupported"
  /\ StopsInTopChain
  /\ Len(rd.el.chain) = 1
  /\ pIn.pQueueCreateInfos # << >>
  /\ pIn.pEnabledFeatures # << >>

\* C7: when the reader meets a non-null chain tag that is no case of the
\* switch, the read is marked failed and no word behind the tag is decoded
\* as a field of the parent.
C7_UnknownTagIsFatalOnRead ==
  (HasBeenRead /\ rd.r.stopKind = "invalid")
    => /\ rd.r.err
       /\ rd.r.pos = rd.r.stopAt

\* what a writer that logs every link it drops logs for the structure
RECURSIVE DroppedInQueueInfos(_, _)
DroppedInQueueInfos(qs, sup) ==
  IF qs = << >> THEN << >>
  ELSE DroppedTags(Head(qs).chain, sup) \o DroppedInQueueInfos(Tail(qs), sup)

\* the structure with the dropped links taken out of its chains
OnlyWritten(el, sup) ==
  [el EXCEPT !.chain = WrittenLinks(@, sup),
             !.pQueueCreateInfos =
                [i \in 1..Len(@) |-> [@[i] EXCEPT !.chain = WrittenLinks(@, sup)]]]

\* C8: on write every link whose tag is unsupported or no case of the
\* switch is logged and dropped, and the stream is the one written for the
\* chain of the remaining links, in their order, ended by one null tag.
C8_WriteLogsAndDropsUnsupported ==
  serPhase = "written"
    => /\ [i \in 1..Len(wlog) |-> wlog[i][2]]
            = DroppedTags(pIn.chain, Supported)
                \o DroppedInQueueInfos(pIn.pQueueCreateInfos, Supported)
       /\ stream = WriteDeviceCreateInfo(OnlyWritten(pIn, Supported),
                                         Supported, Unsupported).out

\* C9: reading back what this build wrote for a chain of supported links
\* gives a chain of the same length, with the same tags in the same order
\* and the same member values.
C9_ChainRoundTrip ==
  (HasBeenRead /\ rd.origin = "written")
    => /\ AllIn(pIn.chain, Supported) => SameLinks(rd.el.chain, pIn.chain)
       /\ Len(rd.el.pQueueCreateInfos) = Len(pIn.pQueueCreateInfos)
       /\ \A i \in 1..Len(pIn.pQueueCreateInfos) :
            AllIn(pIn.pQueueCreateInfos[i].chain, Supported)
              => SameLinks(rd.el.pQueueCreateInfos[i].chain,
                           pIn.pQueueCreateInfos[i].chain)

\* a chain of two supported links with different member values, read back
C9_Witness ==
  /\ serPhase = "read"
  /\ rd.origin = "written"
  /\ Len(pIn.chain) = 2
  /\ AllIn(pIn.chain, Supported)
  /\ pIn.chain[1].sType # pIn.chain[2].sType
  /\ pIn.chain[1].val # pIn.chain[2].val
  /\ Len(rd.el.chain) = 2

\* the number of times x occurs in a sequence
Count(seq, x) == Cardinality({ i \in 1..Len(seq) : seq[i] = x })

\* C10: after the release of a decoded structure the release has returned
\* and every allocation made while decoding has been deleted exactly once.
C10_ReleaseFreesEachAllocationOnce ==
  serPhase = "released"
    => /\ ~rel.diverged
       /\ \A i \in 1..Len(rd.r.allocs) :
            Count(rd.r.freed \o rel.freed, rd.r.allocs[i]) = 1

\* ---- overlay ----
\* C1: when RenderOverlay returns, the replay state (pipeline, render pass,
\* subpass, framebuffer, dynamic scissors, line width) is the state of
\* immediately before the call, for every overlay.
C1_ReplayStateRestored ==
  ov.pc = "end" => state = ov.before

\* a wireframe overlay is about to return after it modified a state with
\* dynamic scissors, another subpass and another line width, and replayed
C1_Witness ==
  /\ ov.pc = "end"
  /\ ov.overlay = "Wireframe"
  /\ ov.replays = 1
  /\ ov.before.subpass # 0
  /\ ov.before.lineWidth # 1
  /\ ov.before.scissors # ScissorsSetToMax(ov.before.scissors)
  /\ state = ov.before

\* C2: when a highlighting RenderOverlay returns, every pipeline, shader
\* module, shader, render pass and framebuffer it created for the overlay
\* has been destroyed exactly once.
C2_EphemeralDestroyedOnce ==
  ov.pc = "end" => \A h \in ov.eph : objs[h].destroys = 1

\* a depth overlay that made its own render pass and framebuffer is about
\* to return, with all eight objects destroyed once
C2_Witness ==
  /\ ov.pc = "end"
  /\ ov.overlay = "Depth"
  /\ Cardinality(ov.eph) = 8
  /\ { objs[h].kind : h \in ov.eph }
       = {"pipeline", "shadermodule", "shader", "renderpass", "framebuffer"}
  /\ \A h \in ov.eph : objs[h].destroys = 1

\* ---- handles serialised through resource ids ----
\* the last call read an id and translated it
Translated == lastRes.n > 0 /\ Translates(lastRes.reading, lastRes.rm, lastRes.exporting)

\* the last call read an id that is not null and has no live resource
MissingRead == Translated /\ lastRes.id # NullId /\ lastRes.id \notin LiveIds

\* C11 as stated: inside an optional-resource scope a read id without a
\* live resource logs a warning and gives the null handle.
C11_OptionalMissingWarnsAndNull ==
  (MissingRead /\ lastRes.optional) => (lastRes.warned /\ resEl = NullHandle)

\* C11 amended: a read id without a live resource always gives the null
\* handle; the warning is logged exactly when no optional-resource scope
\* is active, so inside a scope nothing is logged.
C11_OptionalMissingIsSilentNull ==
  MissingRead => (resEl = NullHandle /\ (lastRes.warned <=> ~lastRes.optional))

\* a missing id was read inside a scope into a handle that was not null
C11_Witness ==
  /\ MissingRead
  /\ lastRes.optional
  /\ lastRes.old # NullHandle
  /\ resEl = NullHandle
  /\ ~lastRes.warned

\* C12: reading with a resource manager that is not exporting structured
\* data, a null id or an id without a live resource gives exactly the null
\* handle, and an id with a live resource gives its live handle.
C12_TranslationFailsClosed ==
  Translated
    => resEl = (IF lastRes.id \in LiveIds THEN GetLiveHandle(lastRes.id) ELSE NullHandle)

\* a null id was read into a handle variable that held a live handle
C12_Witness ==
  /\ Translated
  /\ lastRes.id = NullId
  /\ lastRes.old # NullHandle
  /\ resEl = NullHandle

\* ---- PatchFixedColShader ----
\* the offsets of the instructions of a module
RECURSIVE InstrOffsets(_, _)
InstrOffsets(spirv, it) ==
  IF it >= Len(spirv) THEN {}
  ELSE {it} \cup InstrOffsets(spirv, it + WordCountOf(At(spirv, it)))

\* the offsets of its constant declarations
ConstantOffsets(spirv) ==
  { it \in InstrOffsets(spirv, 5) : OpcodeOf(At(spirv, it)) = OpConstant }

\* the values its constant declarations hold
ConstantValues(spirv) == { At(spirv, it + 3) : it \in ConstantOffsets(spirv) }

SentinelAbsent(spirv) == \E s \in 1..4 : Sentinels[s] \notin ConstantValues(spirv)

\* C14: when any of the sentinels 1.1, 2.2, 3.3, 4.4 is absent from the
\* constants of the embedded shader, PatchFixedColShader logs an error and
\* still completes, creating the shader module and the shader.
C14_AbsentSentinelIsLogged ==
  (fcCall.n > 0 /\ SentinelAbsent(fixedcol)) =>
    (fcCall.errors > 0 /\ fcCall.mod # NullHandle /\ fcCall.shad # NullHandle)

\* C15: PatchFixedColShader overwrites the value word of every constant
\* holding sentinel 1.1, 2.2, 3.3 or 4.4 with col[0], col[1], col[2] or col[3]
\* (once: a written value is not patched again) and changes no other word.
C15_SentinelsOverwrittenInPlace ==
  fcCall.n > 0 =>
    /\ Len(fcCall.spirv) = Len(fixedcol)
    /\ \A k \in 0..(Len(fixedcol) - 1) :
         At(fcCall.spirv, k) =
           IF \E it \in ConstantOffsets(fixedcol) : k = it + 3
           THEN IF At(fixedcol, k) = Float1_1 THEN fcCall.col[1]
                ELSE IF At(fixedcol, k) = Float2_2 THEN fcCall.col[2]
                ELSE IF At(fixedcol, k) = Float3_3 THEN fcCall.col[3]
                ELSE IF At(fixedcol, k) = Float4_4 THEN fcCall.col[4]
                ELSE At(fixedcol, k)
           ELSE At(fixedcol, k)

\* a call whose col[0] is itself a sentinel, on a shader holding 1.1 and a
\* constant that is no sentinel
C15_Witness ==
  /\ fcCall.n > 0
  /\ Float1_1 \in ConstantValues(fixedcol)
  /\ Float1_0 \in ConstantValues(fixedcol)
  /\ fcCall.col[1] = Float2_2
  /\ fcCall.col[2] # Float2_2
  /\ Float2_2 \in ConstantValues(fcCall.spirv)

\* ---- AddOutputDumping ----
IsType(opcode) == opcode >= OpTypeVoid /\ opcode <= OpTypeForwardPointer

\* the offsets of the type, constant and variable declarations of a module
Declarations(spirv) ==
  { it \in InstrOffsets(spirv, 5) :
      \/ IsType(OpcodeOf(At(spirv, it)))
      \/ OpcodeOf(At(spirv, it)) \in {OpConstant, OpVariable} }

\* the id a declaration declares: word 1 of a type, word 2 of a constant or
\* variable
ResultId(spirv, it) ==
  IF IsType(OpcodeOf(At(spirv, it))) THEN At(spirv, it + 1) ELSE At(spirv, it + 2)

\* the OpDecorate instructions giving a decoration to an id
DecorationsOf(spirv, id, decoration) ==
  { it \in InstrOffsets(spirv, 5) :
      /\ OpcodeOf(At(spirv, it)) = OpDecorate
      /\ At(spirv, it + 1) = id
      /\ At(spirv, it + 2) = decoration }

\* the number of instructions the call inserted
Inserted == Cardinality(InstrOffsets(dump.output, 5)) - Cardinality(InstrOffsets(dump.input, 5))

\* the number of type, constant and variable declarations it inserted
InsertedDeclarations ==
  Cardinality(Declarations(dump.output)) - Cardinality(Declarations(dump.input))

\* C13 as stated: after AddOutputDumping the id count in the header is 4 plus
\* the number of inserted type, constant, variable and decoration
\* instructions.
C13_IdBoundIsFourPlusInserted ==
  dump.n > 0 => At(dump.output, 3) = 4 + Inserted

\* C13 amended: the id count in the header is the id count before the call
\* plus the number of inserted type, constant and variable declarations
\* (decorations declare no id), and the new declarations declare the ids from
\* the old count up to the new count minus one, one each.
C13_IdBoundGrowsByDeclarations ==
  dump.n > 0 =>
    LET old == At(dump.input, 3)
        new == At(dump.output, 3)
        newDecls == { it \in Declarations(dump.output) : ResultId(dump.output, it) >= old }
    IN  /\ new = old + InsertedDeclarations
        /\ Cardinality(newDecls) = InsertedDeclarations
        /\ { ResultId(dump.output, it) : it \in newDecls } = old..(new - 1)

\* a call that had to declare more than the five ids of the output buffer,
\* and inserted decorations besides
C13_Witness ==
  /\ dump.n > 0
  /\ At(dump.output, 3) > At(dump.input, 3) + 5
  /\ Inserted > InsertedDeclarations

\* the descriptor sets a module decorates anything with
DecoratedSets(spirv) ==
  { At(spirv, it + 3) :
      it \in { o \in InstrOffsets(spirv, 5) :
                 /\ OpcodeOf(At(spirv, o)) = OpDecorate
                 /\ At(spirv, o + 2) = DecorationDescriptorSet } }

Highest(S) == CHOOSE x \in S : \A y \in S : y <= x

\* C18: the output-buffer variable AddOutputDumping inserts is decorated with
\* the descriptor set one above the highest descriptor set decorated in the
\* input module, and with binding 0.
C18_OutputBufferBinding ==
  (dump.n > 0 /\ DecoratedSets(dump.input) # {}) =>
    /\ \E it \in Declarations(dump.output) :
         /\ OpcodeOf(At(dump.output, it)) = OpVariable
         /\ ResultId(dump.output, it) = dump.outBufferVarID
    /\ dump.outBufferVarID >= At(dump.input, 3)
    /\ { At(dump.output, it + 3) :
           it \in DecorationsOf(dump.output, dump.outBufferVarID, DecorationDescriptorSet) }
         = { Highest(DecoratedSets(dump.input)) + 1 }
    /\ { At(dump.output, it + 3) :
           it \in DecorationsOf(dump.output, dump.outBufferVarID, DecorationBinding) }
         = { 0 }

\* a module whose highest descriptor set is not the last one it decorates
C18_Witness ==
  /\ dump.n > 0
  /\ DecoratedSets(dump.input) = {0, 2}
  /\ DecorationsOf(dump.output, dump.outBufferVarID, DecorationDescriptorSet) # {}

\* the byte width of a component of an output: 8 for a double, 4 for the
\* 32-bit types
ComponentBytes(compType) == IF compType = "Double" THEN 8 ELSE 4

\* the bytes of the first k outputs
RECURSIVE BytesBefore(_, _)
BytesBefore(refl, k) ==
  IF k = 0 THEN 0
  ELSE BytesBefore(refl, k - 1) + ComponentBytes(refl[k].compType) * refl[k].compCount

\* the offsets a module decorates a member of a struct with
MemberOffsetsIn(spirv, structID, member) ==
  { At(spirv, it + 4) :
      it \in { o \in InstrOffsets(spirv, 5) :
                 /\ OpcodeOf(At(spirv, o)) = OpMemberDecorate
                 /\ At(spirv, o + 1) = structID
                 /\ At(spirv, o + 2) = member
                 /\ At(spirv, o + 3) = DecorationOffset } }

\* C19: member i of the output-record struct is decorated with the offset
\* that is the sum of (component byte width x component count) of the
\* outputs before it, and the array stride is that sum over all outputs; so
\* no two members overlap and each lies inside one array element.
C19_MemberOffsetsAndStride ==
  dump.n > 0 =>
    LET n == Len(dump.refl)
        size(i) == ComponentBytes(dump.refl[i].compType) * dump.refl[i].compCount
        offs(i) == MemberOffsetsIn(dump.output, dump.vertStructID, i - 1)
        strides == { At(dump.output, it + 3) :
                       it \in DecorationsOf(dump.output, dump.runtimeArrayID,
                                            DecorationArrayStride) }
    IN  /\ \A i \in 1..n : offs(i) = { BytesBefore(dump.refl, i - 1) }
        /\ strides = { BytesBefore(dump.refl, n) }
        /\ \A i \in 1..n, j \in 1..n :
             i < j => \A a \in offs(i), b \in offs(j) : a + size(i) <= b
        /\ \A i \in 1..n : \A a \in offs(i), s \in strides : a + size(i) <= s

\* a record whose first member is a vector of doubles, followed by another
C19_Witness ==
  /\ dump.n > 0
  /\ Len(dump.refl) >= 2
  /\ dump.refl[1].compType = "Double"
  /\ MemberOffsetsIn(dump.output, dump.vertStructID, 1) # {}

\* ---- versioned structures ----
IsPrefix(s, t) == Len(s) <= Len(t) /\ SubSeq(t, 1, Len(s)) = s

RECURSIVE IsSubsequence(_, _)
IsSubsequence(s, t) ==
  IF s = <<>> THEN TRUE
  ELSE IF t = <<>> THEN FALSE
  ELSE IF Head(s) = Head(t) THEN IsSubsequence(Tail(s), Tail(t))
  ELSE IsSubsequence(s, Tail(t))

\* two serialisations of one structure, the first with the older version
Older(r1, r2) == r1.structure = r2.structure /\ r1.version < r2.version

\* C17 as stated: for versions v1 < v2 the members serialised at v1 are a
\* prefix of the members serialised at v2.
C17_OlderMembersArePrefix ==
  \A r1 \in verReads, r2 \in verReads :
    Older(r1, r2) => IsPrefix(r1.members, r2.members)

\* C17 amended: for versions v1 < v2 the members serialised at v1 are those
\* serialised at v2 with the members added in between left out, in the same
\* order; a member added later may come first.  For DescriptorSetSlot they
\* are a prefix.
C17_OlderMembersAreKeptInOrder ==
  \A r1 \in verReads, r2 \in verReads :
    Older(r1, r2) =>
      /\ IsSubsequence(r1.members, r2.members)
      /\ r1.structure = "DescriptorSetSlot" => IsPrefix(r1.members, r2.members)

\* an ImageRegionState serialised before and after the member added in 0xD
C17_Witness ==
  \E r1 \in verReads, r2 \in verReads :
    /\ Older(r1, r2)
    /\ r1.structure = "ImageRegionState"
    /\ Len(r1.members) < Len(r2.members)

\* ---- RenderOverlay: the order of the steps ----
\* the steps of a call, told by what they change
Replayed == ov'.replays > ov.replays
Flushed == ov'.flushes > ov.flushes
Restored == state' # state /\ state' = ov.prevstate /\ ov.replays > 0
DestroyedEphemeral == \E h \in ov.eph : objs'[h].destroys > objs[h].destroys
Returned == ov'.n > ov.n

EphemeralAlive == \A h \in ov.eph : objs[h].destroys = 0

Passes == IF ov.overlay \in HighlightTwo THEN 2 ELSE 1

\* C16: in a highlighting overlay the state is saved and the ephemeral
\* pipelines exist before a draw is replayed with one of them bound; the
\* replays are followed by one blocking submit-and-flush before the call
\* goes on; the state is restored and the ephemeral objects are destroyed
\* only after that flush, the restore first.
C16_OverlayStepOrder ==
  [][ /\ Replayed =>
           /\ ov.prevstate = ov.before
           /\ ov.flushes = 0
           /\ EphemeralAlive
           /\ state'.pipeline = ov.pipe[ov'.replays]
           /\ objs[state'.pipeline].kind = "pipeline"
      /\ Flushed =>
           /\ ov.replays = Passes
           /\ ov.flushes = 0
           /\ EphemeralAlive
           /\ state.pipeline = ov.pipe[Passes]
      /\ Restored => (ov.flushes = 1 /\ EphemeralAlive)
      /\ DestroyedEphemeral => (ov.flushes = 1 /\ state = ov.prevstate)
      /\ Returned => (ov.replays > 0 => ov.flushes = 1)
    ]_vars

\* a two-pass overlay at its end: replayed twice, flushed, restored, its
\* pipelines destroyed
C16_Witness ==
  /\ ov.pc = "end"
  /\ ov.replays = 2
  /\ ov.flushes = 1
  /\ state = ov.prevstate
  /\ \A i \in 1..2 : objs[ov.pipe[i]].destroys = 1

\* ---- RenderOverlay: depth and stencil overlays without a depth buffer ----
NoDepthCase ==
  /\ ov.overlay \in {"Depth", "Stencil"}
  /\ ov.pc \in {"mutate", "replay1", "replay2", "flush", "restore", "destroy", "end"}
  /\ ov.pipe # << >>
  /\ ~HasDepthAttachment(ov.before)

\* C20: when the pass has no depth-stencil attachment, the depth and stencil
\* overlays create no depth render pass or framebuffer, no pipeline and no
\* replay state refers to one, none is destroyed, and both passes use the
\* overlay's no-depth render pass and framebuffer.
C20_NoDepthPassWithoutAttachment ==
  NoDepthCase =>
    /\ \A h \in ov.eph : objs[h].kind \notin {"renderpass", "framebuffer"}
    /\ \A i \in 1..2 : objs[ov.pipe[i]].info.renderPass = ovl.rp
    /\ ov.pc \in {"replay1", "replay2", "flush", "restore"} =>
         (state.renderPass = ovl.rp /\ state.framebuffer = ovl.fb)
    /\ strayDestroys = 0
    /\ objs[ovl.rp].destroys = 0
    /\ objs[ovl.fb].destroys = 0

\* ---- RenderOverlay: the dynamic scissors ----
\* C21: before each single-draw replay of a highlighting overlay every
\* dynamic scissor of the replay state has offset (0, 0) and extent
\* 4096 x 4096, whatever it was before.
C21_ScissorsAtMaximumForReplay ==
  [][ Replayed =>
        \A i \in 1..Len(state'.scissors) :
          /\ state'.scissors[i].x = 0
          /\ state'.scissors[i].y = 0
          /\ state'.scissors[i].width = MaxScissor
          /\ state'.scissors[i].height = MaxScissor ]_vars

\* ---- MakeGraphicsPipelineInfo: the viewport state ----
ViewportAt(i) == SubSeq(views, (i - 1) * ViewportWords + 1, i * ViewportWords)
ScissorAt(i) == SubSeq(scissorRects, (i - 1) * RectWords + 1, i * RectWords)

\* C22: the description MakeGraphicsPipelineInfo leaves is a copy of the
\* captured viewport state: the two counts are the captured counts, and
\* each viewport and each scissor is the captured one at the same index.
C22_ViewportStateCopied ==
  pipeCall.n > 0 =>
    /\ vp.viewportCount = Len(pipeCall.pipeInfo.viewports)
    /\ vp.scissorCount = Len(pipeCall.pipeInfo.scissors)
    /\ \A i \in 1..vp.viewportCount : ViewportAt(i) = pipeCall.pipeInfo.viewports[i]
    /\ \A i \in 1..vp.scissorCount : ScissorAt(i) = pipeCall.pipeInfo.scissors[i]

\* ---- AddOutputDumping: where the insertions go ----
\* the declarations of the patched module whose id the input did not have
NewDeclarations ==
  { it \in Declarations(dump.output) : ResultId(dump.output, it) >= At(dump.input, 3) }

\* the decorations of the patched module on such ids
NewDecorations ==
  { it \in InstrOffsets(dump.output, 5) :
      /\ OpcodeOf(At(dump.output, it)) \in {OpDecorate, OpMemberDecorate}
      /\ At(dump.output, it + 1) >= At(dump.input, 3) }

\* the ids an instruction takes as operands
OperandIds(spirv, it) ==
  LET opcode == OpcodeOf(At(spirv, it))
  IN  IF opcode \in {OpConstant, OpVariable} THEN {At(spirv, it + 1)}
      ELSE IF opcode \in {OpTypeVector, OpTypeRuntimeArray} THEN {At(spirv, it + 2)}
      ELSE IF opcode = OpTypePointer THEN {At(spirv, it + 3)}
      ELSE IF opcode = OpTypeStruct
           THEN { At(spirv, it + k) : k \in 2..(WordCountOf(At(spirv, it)) - 1) }
      ELSE {}

FirstOffset(S) == CHOOSE x \in S : \A y \in S : x <= y

\* C23: the instructions AddOutputDumping inserts are in dependency order:
\* every inserted decoration lies before the first type declaration, every
\* inserted type, constant and variable lies after all decorations and before
\* the first function, and every id such a declaration takes as an operand
\* is declared earlier in the stream.
C23_InsertedInDependencyOrder ==
  dump.n > 0 =>
    LET out == dump.output
        offsets == InstrOffsets(out, 5)
        firstType == FirstOffset({ it \in offsets : IsType(OpcodeOf(At(out, it))) })
        firstFunction == FirstOffset({ it \in offsets : OpcodeOf(At(out, it)) = OpFunction })
        decorations == { it \in offsets :
                           OpcodeOf(At(out, it)) \in {OpDecorate, OpMemberDecorate} }
    IN  /\ Cardinality(NewDeclarations) + Cardinality(NewDecorations) = Inserted
        /\ \A it \in NewDecorations : it < firstType
        /\ \A it \in NewDeclarations :
             /\ \A dec \in decorations : dec < it
             /\ it < firstFunction
             /\ \A id \in OperandIds(out, it) :
                  \E decl \in Declarations(out) : decl < it /\ ResultId(out, decl) = id

\* a call that had to declare gl_VertexID with its type and pointer type, the
\* unsigned type and a constant of it, before the output buffer
C23_Witness ==
  /\ dump.n > 0
  /\ Cardinality(NewDeclarations) >= 10
  /\ Cardinality(NewDecorations) >= 7
  /\ \E it \in NewDeclarations :
       OpcodeOf(At(dump.output, it)) = OpConstant
         /\ At(dump.output, it + 1) >= At(dump.input, 3)

\* ---- AddOutputDumping: the uniform pointer types ----
\* the declarations of a uniform-storage pointer to a type
UniformPointersTo(spirv, type) ==
  { it \in InstrOffsets(spirv, 5) :
      /\ OpcodeOf(At(spirv, it)) = OpTypePointer
      /\ At(spirv, it + 2) = StorageClassUniform
      /\ At(spirv, it + 3) = type }

\* the base types of the outputs: the members of the struct of the outputs
OutputBaseTypes(spirv, vertStructID) ==
  UNION { { At(spirv, it + k) : k \in 2..(WordCountOf(At(spirv, it)) - 1) } :
            it \in { o \in InstrOffsets(spirv, 5) :
                       OpcodeOf(At(spirv, o)) = OpTypeStruct
                         /\ At(spirv, o + 1) = vertStructID } }

\* C24: after AddOutputDumping the module declares exactly one
\* uniform-storage pointer type to the base type of every output: a pointer
\* type the module already had is reused, outputs of one base type share one
\* pointer, and no second uniform pointer to a base type is declared.
C24_OneUniformPointerPerBaseType ==
  dump.n > 0 =>
    \A type \in OutputBaseTypes(dump.output, dump.vertStructID) :
      Cardinality(UniformPointersTo(dump.output, type)) = 1

\* ---- AddOutputDumping: reuse of what the module declares ----
\* the declarations of the 32-bit integer type of a signedness
IntTypes(spirv, signedness) ==
  { it \in InstrOffsets(spirv, 5) :
      /\ OpcodeOf(At(spirv, it)) = OpTypeInt
      /\ At(spirv, it + 2) = 32
      /\ At(spirv, it + 3) = signedness }

\* the declarations of an input pointer to the signed integer type
SIntInputPointers(spirv) ==
  { it \in InstrOffsets(spirv, 5) :
      /\ OpcodeOf(At(spirv, it)) = OpTypePointer
      /\ At(spirv, it + 2) = StorageClassInput
      /\ \E t \in IntTypes(spirv, 1) : At(spirv, it + 3) = At(spirv, t + 1) }

\* the input variables decorated as the vertex index
VertexIndexVariables(spirv) ==
  { it \in InstrOffsets(spirv, 5) :
      /\ OpcodeOf(At(spirv, it)) = OpVariable
      /\ At(spirv, it + 3) = StorageClassInput
      /\ DecorationsOf(spirv, At(spirv, it + 2), DecorationBuiltIn) # {}
      /\ \A dec \in DecorationsOf(spirv, At(spirv, it + 2), DecorationBuiltIn) :
           At(spirv, dec + 3) = BuiltInVertexId }

\* the declarations of the unsigned constant of a value
UIntConstants(spirv, value) ==
  { it \in ConstantOffsets(spirv) :
      /\ At(spirv, it + 3) = value
      /\ \E t \in IntTypes(spirv, 0) : At(spirv, it + 1) = At(spirv, t + 1) }

\* a kind of declaration the module had is still the only one; one it did
\* not have is there once when the patch needs it, and not at all otherwise
Reused(before, after, needed) ==
  Cardinality(after) = (IF before # {} \/ needed THEN 1 ELSE 0)

\* C25: AddOutputDumping inserts the signed and the unsigned 32-bit integer
\* type, the input pointer to the signed type, the vertex index variable
\* and the index constant of output i only when the module declares none:
\* what the module declares is used and never declared a second time.
C25_PresentDeclarationsReused ==
  dump.n > 0 =>
    LET in == dump.input
        out == dump.output
        noVertexIndex == VertexIndexVariables(in) = {}
    IN  /\ Reused(IntTypes(in, 0), IntTypes(out, 0), TRUE)
        /\ Reused(VertexIndexVariables(in), VertexIndexVariables(out), TRUE)
        /\ Reused(IntTypes(in, 1), IntTypes(out, 1), noVertexIndex)
        /\ Reused(SIntInputPointers(in), SIntInputPointers(out), noVertexIndex)
        /\ \A i \in 1..Len(dump.refl) :
             Reused(UIntConstants(in, i - 1), UIntConstants(out, i - 1), TRUE)
        /\ \A v \in VertexIndexVariables(out), p \in SIntInputPointers(out) :
             At(out, v + 1) = At(out, p + 1)

\* a module that has the signed type but no pointer to it, and the constant
\* of the first of several outputs but not of the second
C25_Witness ==
  /\ dump.n > 0
  /\ Len(dump.refl) >= 2
  /\ IntTypes(dump.input, 1) # {}
  /\ SIntInputPointers(dump.input) = {}
  /\ UIntConstants(dump.input, 0) # {}
  /\ UIntConstants(dump.input, 1) = {}
  /\ Cardinality(UIntConstants(dump.output, 1)) = 1

\* ---- AddOutputDumping: the ids ----
\* every id occurring in a module: declared, decorated, or used as an operand
IdsOf(spirv) ==
  UNION { LET opcode == OpcodeOf(At(spirv, it))
          IN  IF opcode \in {OpDecorate, OpMemberDecorate} THEN {At(spirv, it + 1)}
              ELSE IF opcode = OpFunction
                   THEN {At(spirv, it + 1), At(spirv, it + 2), At(spirv, it + 4)}
              ELSE IF it \in Declarations(spirv)
                   THEN {ResultId(spirv, it)} \cup OperandIds(spirv, it)
              ELSE {} :
          it \in InstrOffsets(spirv, 5) }

\* C26: the ids AddOutputDumping allocates start at the id bound of the
\* module as it was and go upward, a fresh one for each new declaration:
\* none is an id the module already had, no two new declarations share one,
\* and the bound left in the header is greater than every id in the module.
C26_FreshIdsBelowNewBound ==
  dump.n > 0 =>
    LET old == At(dump.input, 3)
        fresh == { ResultId(dump.output, it) : it \in NewDeclarations }
    IN  /\ \A id \in IdsOf(dump.input) : id < old
        /\ fresh \cap IdsOf(dump.input) = {}
        /\ Cardinality(fresh) = Cardinality(NewDeclarations)
        /\ \A a \in Declarations(dump.output), b \in Declarations(dump.output) :
             ResultId(dump.output, a) = ResultId(dump.output, b) => a = b
        /\ IdsOf(dump.output) \ IdsOf(dump.input) = fresh
        /\ \A id \in IdsOf(dump.output) : id < At(dump.output, 3)

\* a module using ids up to 17 of its 20, patched with more than the five
\* declarations of the output buffer
C26_Witness ==
  /\ dump.n > 0
  /\ 17 \in IdsOf(dump.input)
  /\ At(dump.input, 3) + 7 \in IdsOf(dump.output)
  /\ At(dump.output, 3) > At(dump.input, 3) + 7

\* ---- versioned structures: reading an older capture ----
\* a read of a capture older than the version that added the member
ReadsOlder(r) == r.reading /\ ~VersionAtLeast(r.version, AddedIn(r.structure))

RECURSIVE ReadingScopes(_)
ReadingScopes(k) ==
  IF k = 0 THEN 0
  ELSE ReadingScopes(k - 1) + (IF scopes[k].reading THEN 1 ELSE 0)

\* C28: the optional-resource counter is stack-scoped: it counts the reading
\* scopes that are open, each having added one on entry and taking one off
\* on exit, so it is never negative, it is what it was when the innermost
\* open scope was entered plus that scope's one, and outside every scope it
\* is 0: a lookup there is not treated as optional.
C28_CounterIsStackScoped ==
  /\ Counter >= 0
  /\ Counter = ReadingScopes(Len(scopes))
  /\ \A k \in 1..Len(scopes) : scopes[k].prior = ReadingScopes(k - 1)
  /\ scopes = << >> => ~OptionalResourcesEnabled(Counter)
  /\ (lastRes.n > 0 /\ lastRes.optional) => lastRes.depth > 0

\* a lookup made inside two nested reading scopes and treated as optional,
\* both scopes having ended since
C28_Witness ==
  /\ lastRes.n > 0
  /\ lastRes.optional
  /\ lastRes.depth = 2
  /\ scopes = << >>
  /\ Counter = 0

\* ---- DeserialiseNext: termination ----
\* C29: DeserialiseNext returns for every finite chain, whatever the tags of
\* its links (supported, unsupported, the max-enum placeholder), and it
\* handles no link more than once: no link is deleted twice.
C29_DeserialiseNextReturns ==
  nextRel.n > 0 =>
    /\ ~nextRel.rel.diverged
    /\ \A k \in 1..Len(pNextIn) : Count(nextRel.rel.freed, pNextIn[k].id) <= 1

\* ---- RenderOverlay: the overlay image across requests ----
Began == ov.pc = "idle" /\ ov'.pc # "idle"

Alive(h, kind) == h \in DOMAIN objs /\ objs[h].kind = kind /\ objs[h].destroys = 0

\* C30: over any sequence of overlay requests for textures of different
\* sizes: a request for the size the overlay image has recreates nothing; a
\* request the recorded memory size suffices for keeps the memory; and when
\* a request returns, the live overlay image has the requested size, its
\* view and its framebuffer are the ones made for it, and the memory is live
\* with the recorded size, which is at least what the image requires.
C30_OverlayImageFollowsRequests ==
  [][ /\ Began =>
           /\ (ovl.image # NullHandle /\ ovl.dim = ov'.dim) => (ovl' = ovl /\ objs' = objs)
           /\ (ovl.mem # NullHandle /\ ImageMemSize(ov'.dim) <= ovl.memSize) =>
                /\ ovl'.mem = ovl.mem
                /\ ovl'.memSize = ovl.memSize
                /\ objs'[ovl.mem].destroys = 0
      /\ Returned =>
           /\ ovl.dim = ov.dim
           /\ Alive(ovl.image, "image")
           /\ objs[ovl.image].info = ov.dim
           /\ Alive(ovl.view, "imageview")
           /\ objs[ovl.view].info = ovl.image
           /\ objs[ovl.fb].info = ovl.rp
           /\ Alive(ovl.mem, "memory")
           /\ objs[ovl.mem].info = ovl.memSize
           /\ ovl.memSize >= ImageMemSize(ov.dim) ]_vars

\* a second request, for a smaller texture than the first: the image is new
\* and the memory of the first, larger than needed, is kept
C30_Witness ==
  /\ ov.pc = "end"
  /\ ov.n = 1
  /\ ovl.dim = ov.dim
  /\ ovl.memSize > ImageMemSize(ov.dim)
  /\ ovl.mem < ovl.image
  /\ \E h \in DOMAIN objs : objs[h].kind = "image" /\ objs[h].destroys = 1

====
